---- MODULE Spec2Model ----
(***************************************************************************)
(* Resumable chunked transcription and version lineage of the App          *)
(* component (src/unnamed/part_000), with the retry/fallback adapters of   *)
(* src/services/geminiService.ts.                                          *)
(*                                                                         *)
(* Texts are sequences of integer tokens: chunk i of a recording is        *)
(* answered by the token i, the separating blank is SP, the other markers  *)
(* are negative numbers.  Ids (uuidv4) are drawn from the counter nextId.  *)
(***************************************************************************)
EXTENDS Integers, Sequences, FiniteSets, TLC

VARIABLES
  apiKey,          \* App state apiKey: TRUE when a credential is present
  showKeyModal,    \* App state showKeyModal
  refused,         \* the refusal of a start on display: "key" (modal asked for), "file" (alert raised)
  mediaQueue,      \* App state mediaQueue: sequence of MediaItem
  mediaQueueRef,   \* mediaQueueRef.current / the last rendered queue
  activeItemId,    \* App state activeItemId (Null when none)
  syncStatus,      \* App state syncStatus
  runs,            \* the startTranscription invocations, in call order
  stages,          \* the runStage invocations, in call order
  saves,           \* upserts in flight (saveProjectToSupabase awaiting)
  storage,         \* the rows of table transcriptions, by item id
  nextId,          \* next fresh uuid
  used,            \* how many uploads and how many other user or browser events so far
  adapter,         \* one transcribeSegment / processTextStage call
  slicer,          \* the windows one pass of the chunk loop cuts from a recording
  manager,         \* FileManager: the listed projects and one delete call
  clock            \* Date.now() and lastSavedRef.current, in ticks of the auto-save interval

vars == <<apiKey, showKeyModal, refused, mediaQueue, mediaQueueRef, activeItemId,
          syncStatus, runs, stages, saves, storage, nextId, used, adapter, slicer, manager, clock>>

appVars == <<apiKey, showKeyModal, refused, mediaQueue, mediaQueueRef, activeItemId,
             syncStatus, runs, stages, saves, storage, nextId, used>>

----------------------------------------------------------------------------
(* Bounds of the model *)

MaxItems == 2
MaxEvents == 5
MaxStarts == 3
MaxResumes == 4
MaxStages == 1
MaxOverlap == 2
MaxCalls == 2
AudioSeconds == 300
MaxDuration == 12
MaxWindow == 5
MaxRows == 3
MaxTicks == 4

(* Program constants *)

CHUNK_DURATION == 240

\* the auto-save interval and the age of the last save it asks for, in seconds
CHECK_SECONDS == 10
SAVE_AFTER_SECONDS == 30
STEP_PERCENT == 5
CAP_PERCENT == 95

Null == 0
NoFile == 0
Undefined == "undefined"
SP == -1

RAW == "RAW"
DerivedStages == {"ARABIC"}

----------------------------------------------------------------------------
(* Pure helpers *)

\* Math.ceil(a / b) for a >= 0, b > 0
Ceil(a, b) == (a + b - 1) \div b

\* Math.round((a / b) * 100) for a >= 0, b > 0: halves round up
RoundPercent(a, b) == (200 * a + b) \div (2 * b)

\* !x of JavaScript for an optional string
Falsy(x) == x \in {Undefined, ""}

\* Array.prototype.find on a sequence: index of the first match, 0 if none
RECURSIVE FindFrom(_, _, _)
FindFrom(s, P(_), k) ==
  IF k > Len(s) THEN 0
  ELSE IF P(s[k]) THEN k
  ELSE FindFrom(s, P, k + 1)

Find(s, P(_)) == FindFrom(s, P, 1)

IdIndex(q, id) == LET Is(x) == x.id = id IN Find(q, Is)

\* the live item a run works on
LiveItem(q, run) == q[IdIndex(q, run.item.id)]

\* { ...item, ...updates }
Merge(item, updates) ==
  [f \in DOMAIN item |-> IF f \in DOMAIN updates THEN updates[f] ELSE item[f]]

\* setMediaQueue(prev => prev.map(item => item.id === id ? {...item, ...updates} : item))
updateItem(q, id, updates) ==
  [k \in 1..Len(q) |-> IF q[k].id = id THEN Merge(q[k], updates) ELSE q[k]]

\* the setSyncStatus('idle') of updateItem: on updates.versions || updates.status
updateItemSync(sync, updates) ==
  IF "versions" \in DOMAIN updates \/ "status" \in DOMAIN updates THEN "idle" ELSE sync

\* the new version is put first
addVersionToItem_first(q, itemId, version, setAsCurrent) ==
  [k \in 1..Len(q) |->
     IF q[k].id # itemId THEN q[k]
     ELSE [q[k] EXCEPT !.versions = <<version>> \o @,
                       !.currentVersionId = IF setAsCurrent THEN version.id ELSE @]]

\* setMediaQueue part of addVersionToItem
addVersionToItem(q, itemId, version, setAsCurrent) ==
  [k \in 1..Len(q) |->
     IF q[k].id # itemId THEN q[k]
     ELSE [q[k] EXCEPT !.versions = Append(@, version),
                       !.currentVersionId = IF setAsCurrent THEN version.id ELSE @]]

\* versions.map(v => v.id === vid ? {...v, ...patch} : v) on one item of the queue
patchVersion(q, itemId, vid, patch) ==
  [k \in 1..Len(q) |->
     IF q[k].id # itemId THEN q[k]
     ELSE [q[k] EXCEPT !.versions =
             [j \in 1..Len(@) |-> IF @[j].id = vid THEN Merge(@[j], patch) ELSE @[j]]]]

\* the same map on a bare version list
mapVersions(vs, vid, patch) ==
  [j \in 1..Len(vs) |-> IF vs[j].id = vid THEN Merge(vs[j], patch) ELSE vs[j]]

NewVersion(id, stage, name, content, parentId) ==
  [id |-> id, stage |-> stage, name |-> name, content |-> content, parentId |-> parentId]

\* item.versions.find(v => v.stage === ProcessingStage.RAW): 0 when absent
existingRaw(item) == LET IsRaw(v) == v.stage = RAW IN Find(item.versions, IsRaw)

\* the MediaItem literal of handleFileUpload; file is the recording, given by
\* the duration decodeAudioFile finds in it
NewItem(id, file) ==
  [id |-> id, file |-> file, duration |-> 0, status |-> "idle", progress |-> 0,
   currentVersionId |-> Null, versions |-> <<>>, error |-> Undefined,
   processedChunks |-> 0, totalChunks |-> 0]

\* the text the remote model returns for chunk i (after cleanResponse)
ChunkText(i) == i

\* fullTranscript += chunkText + " "
AppendChunk(fullTranscript, chunkText) == fullTranscript \o <<chunkText, SP>>

\* the message as it comes, empty or not
errorMessage_asIs(msg) == msg

\* err.message || "<default message>"
errorMessage(msg) == IF Falsy(msg) THEN "default_error" ELSE msg

ErrMessages == {"", "net"}

NoRun == [pc |-> "none"]

\* no pass of the chunk loop is being followed
NoPass == [pc |-> "none"]

\* FileManager is not open
Closed == [pc |-> "closed"]

\* line 43: lastSavedRef = useRef(Date.now()) when App is mounted at time now;
\* checked tells that the last tick ended with the auto-save callback
Mounted(now) == [now |-> now, lastSaved |-> now, checked |-> FALSE]

\* one more of the events the model bounds together: an upload, an accepted
\* start (a click or an online event), a stage run, an edit, a view, a
\* selection, a manual save, a project load, a page load
Event ==
  /\ used.events < MaxEvents
  /\ used' = [used EXCEPT !.events = @ + 1]

\* An invocation that has returned: its locals are dead, what it did is kept
Ended(run, outcome, i) ==
  [run EXCEPT !.pc = "done", !.outcome = outcome, !.i = i,
              !.item = [id |-> run.item.id], !.fullTranscript = <<>>,
              !.initialVersions = <<>>]

----------------------------------------------------------------------------
Init ==
  /\ apiKey = FALSE
  /\ showKeyModal = TRUE
  /\ refused = "none"
  /\ mediaQueue = <<>>
  /\ mediaQueueRef = <<>>
  /\ activeItemId = Null
  /\ syncStatus = "idle"
  /\ runs = <<>>
  /\ stages = <<>>
  /\ saves = <<>>
  /\ storage = {}
  /\ nextId = 1
  /\ used = [uploads |-> 0, events |-> 0]
  /\ adapter = NoRun
  /\ slicer = NoPass
  /\ manager = Closed
  /\ clock = Mounted(0)

----------------------------------------------------------------------------
(* startTranscription: the part that runs before its first await *)

RawVersion(id, name) == NewVersion(id, RAW, name, <<>>, Null)

\* Lines 169-229 for the snapshot item: what the call resolves before the try
\* block.  ask is the answer of confirm() (TRUE = continue); fresh is the id
\* uuidv4() returns if it is called.  A restart recurses with
\* {...item, processedChunks: 0} and isResuming = false.
RECURSIVE StartPlan(_, _, _, _)
StartPlan(item, isResuming, ask, fresh) ==
  LET startIndex == item.processedChunks
      raw == existingRaw(item)
      base == [item |-> item, isResuming |-> isResuming, startIndex |-> startIndex,
               reset |-> FALSE, usedId |-> FALSE, added |-> <<>>,
               baseVersionId |-> Null, fullTranscript |-> <<>>,
               initialVersions |-> item.versions]
  IN
  IF isResuming /\ Len(item.versions) > 0
  THEN IF raw # 0
       THEN [base EXCEPT !.baseVersionId = item.versions[raw].id,
                         !.fullTranscript = item.versions[raw].content]
       ELSE LET newVer == RawVersion(fresh, <<RAW, "continuing">>)
            IN [base EXCEPT !.baseVersionId = fresh, !.usedId = TRUE,
                            !.added = <<newVer>>,
                            !.initialVersions = Append(item.versions, newVer)]
  ELSE IF item.processedChunks > 0 /\ ~ask
       THEN [StartPlan([item EXCEPT !.processedChunks = 0], FALSE, ask, fresh)
               EXCEPT !.reset = TRUE]
       ELSE IF startIndex = 0
            THEN LET newVer == RawVersion(fresh, <<RAW, "generating">>)
                 IN [base EXCEPT !.baseVersionId = fresh, !.usedId = TRUE,
                                 !.added = <<newVer>>,
                                 !.initialVersions = Append(item.versions, newVer)]
            ELSE IF raw # 0
                 THEN [base EXCEPT !.baseVersionId = item.versions[raw].id,
                                   !.fullTranscript = item.versions[raw].content]
                 ELSE [base EXCEPT !.baseVersionId = fresh, !.usedId = TRUE]

\* the version a start creates is not given to the item
StartQueue_noVersion(q, plan) ==
  LET id == plan.item.id
      q1 == updateItem(q, id, [status |-> "processing", error |-> Undefined])
  IN IF plan.reset
     THEN updateItem(q1, id, [processedChunks |-> 0, totalChunks |-> 0])
     ELSE q1

\* a restart leaves the counts of the item as they were
StartQueue_noReset(q, plan) ==
  LET id == plan.item.id
      q1 == updateItem(q, id, [status |-> "processing", error |-> Undefined])
  IN IF plan.added = <<>> THEN q1 ELSE addVersionToItem(q1, id, plan.added[1], TRUE)

\* The queue after the synchronous part of an accepted start
StartQueue(q, plan) ==
  LET id == plan.item.id
      q1 == updateItem(q, id, [status |-> "processing", error |-> Undefined])
      q2 == IF plan.reset
            THEN updateItem(q1, id, [processedChunks |-> 0, totalChunks |-> 0])
            ELSE q1
  IN IF plan.added = <<>> THEN q2 ELSE addVersionToItem(q2, id, plan.added[1], TRUE)

\* The locals of the invocation when it suspends at decodeAudioFile
StartRun(plan) ==
  [pc |-> "decode",
   item |-> plan.item, isResuming |-> plan.isResuming, startIndex |-> plan.startIndex,
   baseVersionId |-> plan.baseVersionId, fullTranscript |-> plan.fullTranscript,
   initialVersions |-> plan.initialVersions,
   currentDuration |-> plan.item.duration, currentTotalChunks |-> plan.item.totalChunks,
   i |-> plan.startIndex, sent |-> <<>>, outcome |-> "running"]

\* the source is looked at before the credential
refusal_fileFirst(item) ==
  IF item.file = NoFile THEN "file" ELSE IF ~apiKey THEN "key" ELSE "none"

\* lines 159-166: if (!apiKey) {...; return;}  if (!item.file) {...; return;}
refusal(item) ==
  IF ~apiKey THEN "key" ELSE IF item.file = NoFile THEN "file" ELSE "none"

\* startTranscription(item, isResuming) up to its first await.  The queue and
\* the ref are left to the caller: a React event handler is rendered at once,
\* a window listener is not.
startTranscriptionWithin(item, isResuming, ask, limit) ==
  IF refusal(item) = "key"
  THEN /\ showKeyModal' = TRUE
       /\ refused' = "key"
       /\ UNCHANGED <<mediaQueue, syncStatus, runs, nextId, used>>
  ELSE IF refusal(item) = "file"
  THEN /\ refused' = "file"
       /\ UNCHANGED <<showKeyModal, mediaQueue, syncStatus, runs, nextId, used>>
  ELSE LET plan == StartPlan(item, isResuming, ask, nextId)
       IN /\ Len(runs) < limit
          /\ Event
          /\ mediaQueue' = StartQueue(mediaQueue, plan)
          /\ syncStatus' = "idle"
          /\ runs' = Append(runs, StartRun(plan))
          /\ nextId' = IF plan.usedId THEN nextId + 1 ELSE nextId
          /\ UNCHANGED <<showKeyModal, refused>>

startTranscription(item, isResuming, ask) ==
  startTranscriptionWithin(item, isResuming, ask, MaxStarts)

\* confirm() is asked only on the branch of line 204
Asks(item, isResuming) ==
  IF ~(isResuming /\ Len(item.versions) > 0) /\ item.processedChunks > 0
  THEN BOOLEAN ELSE {TRUE}

----------------------------------------------------------------------------
(* Callers of startTranscription *)

\* useEffect(() => { mediaQueueRef.current = mediaQueue }, [mediaQueue]) and the
\* re-render it follows
Render ==
  /\ mediaQueueRef # mediaQueue
  /\ mediaQueueRef' = mediaQueue
  /\ UNCHANGED <<apiKey, showKeyModal, refused, mediaQueue, activeItemId, syncStatus,
                 runs, stages, saves, storage, nextId, used, adapter, slicer, manager, clock>>

\* What the awaited I/O of a task meets when it completes: the queue has been
\* rendered since the last state update
Rendered == mediaQueueRef = mediaQueue

\* The play buttons: the queue row (idle or paused, with a file), the overlay
\* of an idle active item, and the retry overlay of a paused active item.
\* All pass the rendered item and resume exactly when it is paused.
StartOffered(item) ==
  \/ item.status \in {"idle", "paused"} /\ item.file # NoFile
  \/ item.id = activeItemId /\ item.status = "paused"

ClickStart ==
  \E k \in 1..Len(mediaQueueRef) :
    LET item == mediaQueueRef[k] IN
    /\ StartOffered(item)
    /\ \E ask \in Asks(item, item.status = "paused") :
         startTranscription(item, item.status = "paused", ask)
    /\ mediaQueueRef' = mediaQueue'
    /\ UNCHANGED <<apiKey, activeItemId, stages, saves, storage, adapter, slicer, manager, clock>>

\* mediaQueueRef.current.find(i => i.status === 'paused')
pausedItem(q) == LET IsPaused(x) == x.status = "paused" IN Find(q, IsPaused)

\* the window 'online' listener
handleOnline ==
  /\ pausedItem(mediaQueueRef) # 0
  /\ apiKey
  /\ LET item == mediaQueueRef[pausedItem(mediaQueueRef)] IN
       \E ask \in Asks(item, TRUE) : startTranscription(item, TRUE, ask)
  /\ UNCHANGED <<apiKey, mediaQueueRef, activeItemId, stages, saves, storage, adapter, slicer, manager, clock>>

\* handleFileUpload with one file
handleFileUpload ==
  /\ used.uploads < MaxItems
  /\ used.events < MaxEvents
  /\ used' = [uploads |-> used.uploads + 1, events |-> used.events + 1]
  /\ mediaQueue' = Append(mediaQueue, NewItem(nextId, AudioSeconds))
  /\ mediaQueueRef' = mediaQueue'
  /\ nextId' = nextId + 1
  /\ activeItemId' = IF activeItemId = Null THEN nextId ELSE activeItemId
  /\ UNCHANGED <<apiKey, showKeyModal, refused, syncStatus, runs, stages, saves,
                 storage, adapter, slicer, manager, clock>>

----------------------------------------------------------------------------
(* startTranscription: the try block *)

\* const { file, ...rest } = item of serializeItem
serializeItem(item) == [item EXCEPT !.file = NoFile]

\* the snapshot is the item as the run found it, marked completed
finalItemToSave_asStarted(run, fullTranscript) ==
  Merge(run.item,
        [status |-> "completed", progress |-> 100,
         duration |-> run.currentDuration,
         totalChunks |-> run.currentTotalChunks,
         processedChunks |-> run.currentTotalChunks,
         versions |-> run.initialVersions,
         currentVersionId |-> run.baseVersionId])

\* lines 315-339: the snapshot saved on completion
finalItemToSave(run, fullTranscript) ==
  LET done == [content |-> fullTranscript, name |-> <<RAW, "complete">>]
      mapped == mapVersions(run.initialVersions, run.baseVersionId, done)
      HasBase(v) == v.id = run.baseVersionId
      finalVersions ==
        IF Find(mapped, HasBase) = 0
        THEN Append(mapped, NewVersion(run.baseVersionId, RAW, <<RAW, "complete">>,
                                       fullTranscript, Null))
        ELSE mapped
  IN Merge(run.item,
           [status |-> "completed", progress |-> 100,
            duration |-> run.currentDuration,
            totalChunks |-> run.currentTotalChunks,
            processedChunks |-> run.currentTotalChunks,
            versions |-> finalVersions,
            currentVersionId |-> run.baseVersionId])

\* the live item gets the versions the run started from
CompleteQueue_stale(q, run) ==
  updateItem(q, run.item.id,
             [status |-> "completed", progress |-> 100,
              versions |-> mapVersions(run.initialVersions, run.baseVersionId,
                                       [name |-> <<RAW, "complete">>])])

\* lines 304-311: the live item on completion
CompleteQueue(q, run) ==
  patchVersion(updateItem(q, run.item.id, [status |-> "completed", progress |-> 100]),
               run.item.id, run.baseVersionId, [name |-> <<RAW, "complete">>])

\* the checkpoint keeps the text as it was before the chunk
CommitChunk_before(q, run, fullTranscript) ==
  patchVersion(
    updateItem(q, run.item.id,
               [processedChunks |-> run.i + 1,
                progress |-> RoundPercent(run.i + 1, run.currentTotalChunks)]),
    run.item.id, run.baseVersionId,
    [content |-> run.fullTranscript, name |-> <<RAW, "in_progress">>])

\* lines 282-298: the checkpoint of chunk i
CommitChunk(q, run, fullTranscript) ==
  patchVersion(
    updateItem(q, run.item.id,
               [processedChunks |-> run.i + 1,
                progress |-> RoundPercent(run.i + 1, run.currentTotalChunks)]),
    run.item.id, run.baseVersionId,
    [content |-> fullTranscript, name |-> <<RAW, "in_progress">>])

\* lines 258-259: the pause check at the top of an iteration, on the ref
SeesUserPause(ref, id) ==
  LET k == IdIndex(ref, id)
  IN k # 0 /\ ref[k].status = "paused" /\ Falsy(ref[k].error)

\* The for loop from index i on, up to its next await or its end; q is the
\* queue as the updates made so far in this turn leave it.
LoopFrom(r, q, sync, run, i, fullTranscript) ==
  IF i < run.currentTotalChunks
  THEN IF SeesUserPause(mediaQueueRef, run.item.id)
       THEN /\ mediaQueue' = q
            /\ syncStatus' = sync
            /\ runs' = [runs EXCEPT ![r] = Ended(run, "paused", i)]
            /\ UNCHANGED saves
       ELSE /\ mediaQueue' = updateItem(q, run.item.id,
                                 [progress |-> RoundPercent(i, run.currentTotalChunks)])
            /\ syncStatus' = sync
            /\ runs' = [runs EXCEPT ![r] = [run EXCEPT !.pc = "call", !.i = i,
                           !.fullTranscript = fullTranscript,
                           !.sent = Append(@, i)]]
            /\ UNCHANGED saves
  ELSE /\ mediaQueue' = CompleteQueue(q, run)
       /\ syncStatus' = "saving"
       /\ runs' = [runs EXCEPT ![r] = Ended(run, "completed", i)]
       /\ saves' = Append(saves, [item |-> serializeItem(finalItemToSave(run, fullTranscript)),
                                  isAuto |-> TRUE])

\* decodeAudioFile(file).duration
decodedDuration(file) == file

\* lines 233-255: both decodes of the file resolve (the same bytes, decoded
\* twice) and the loop begins
Decoded(r) ==
  /\ runs[r].pc = "decode"
  /\ Rendered
  /\ LET run == runs[r]
         again == run.startIndex = 0 \/ run.item.duration = 0
         d == IF again THEN decodedDuration(run.item.file) ELSE run.currentDuration
         n0 == IF again THEN Ceil(d, CHUNK_DURATION) ELSE run.currentTotalChunks
         n == IF n0 = 0 THEN Ceil(decodedDuration(run.item.file), CHUNK_DURATION) ELSE n0
         q == IF again
              THEN updateItem(mediaQueue, run.item.id, [duration |-> d, totalChunks |-> n0])
              ELSE mediaQueue
     IN LoopFrom(r, q, syncStatus,
                 [run EXCEPT !.currentDuration = d, !.currentTotalChunks = n],
                 run.startIndex, run.fullTranscript)
  /\ UNCHANGED <<apiKey, showKeyModal, refused, mediaQueueRef, activeItemId,
                 stages, storage, nextId, used, adapter, slicer, manager, clock>>

\* the next iteration begins without the checkpoint of chunk i
TranscribeOk_ahead(r) ==
  /\ runs[r].pc = "call"
  /\ Rendered
  /\ LET run == runs[r]
          ft == AppendChunk(run.fullTranscript, ChunkText(run.i))
     IN LoopFrom(r, mediaQueue, "idle", run, run.i + 1, ft)
  /\ UNCHANGED <<apiKey, showKeyModal, refused, mediaQueueRef, activeItemId,
                 stages, storage, nextId, used, adapter, slicer, manager, clock>>

\* lines 271-299: the chunk is sliced and encoded, transcribeSegment returns,
\* the checkpoint, the next iteration up to its await
TranscribeOk(r) ==
  /\ runs[r].pc = "call"
  /\ Rendered
  /\ LET run == runs[r]
          ft == AppendChunk(run.fullTranscript, ChunkText(run.i))
     IN LoopFrom(r, CommitChunk(mediaQueue, run, ft), "idle", run, run.i + 1, ft)
  /\ UNCHANGED <<apiKey, showKeyModal, refused, mediaQueueRef, activeItemId,
                 stages, storage, nextId, used, adapter, slicer, manager, clock>>

\* the catch block writes the item back as the run found it
CatchQueue_asStarted(q, run, msg) ==
  updateItem(q, run.item.id,
             [status |-> "paused", error |-> errorMessage(msg),
              progress |-> run.item.progress,
              processedChunks |-> run.item.processedChunks,
              versions |-> run.initialVersions])

\* the chunk in flight is counted as done
CatchQueue_skip(q, run, msg) ==
  updateItem(q, run.item.id,
             [status |-> "paused", error |-> errorMessage(msg),
              progress |-> run.item.progress, processedChunks |-> run.i + 1])

\* lines 344-354: the catch block
CatchQueue(q, run, msg) ==
  updateItem(q, run.item.id,
             [status |-> "paused", error |-> errorMessage(msg),
              progress |-> run.item.progress])

\* the catch block saves the paused item
RunFails_saves(r) ==
  /\ runs[r].pc \in {"decode", "call"}
  /\ Rendered
  /\ \E msg \in ErrMessages :
       mediaQueue' = CatchQueue(mediaQueue, runs[r], msg)
  /\ syncStatus' = "saving"
  /\ runs' = [runs EXCEPT ![r] = Ended(runs[r], "failed", runs[r].i)]
  /\ saves' = Append(saves, [item |-> serializeItem(LiveItem(mediaQueue', runs[r])),
                             isAuto |-> TRUE])
  /\ UNCHANGED <<apiKey, showKeyModal, refused, mediaQueueRef, activeItemId,
                 stages, storage, nextId, used, adapter, slicer, manager, clock>>

\* an awaited step of the try block throws
RunFails(r) ==
  /\ runs[r].pc \in {"decode", "call"}
  /\ Rendered
  /\ \E msg \in ErrMessages :
       mediaQueue' = CatchQueue(mediaQueue, runs[r], msg)
  /\ syncStatus' = "idle"
  /\ runs' = [runs EXCEPT ![r] = Ended(runs[r], "failed", runs[r].i)]
  /\ UNCHANGED <<apiKey, showKeyModal, refused, mediaQueueRef, activeItemId,
                 stages, saves, storage, nextId, used, adapter, slicer, manager, clock>>

----------------------------------------------------------------------------
(* runStage *)

\* const activeItem = mediaQueue.find(i => i.id === activeItemId) || null, as rendered
activeItem(q) == IdIndex(q, activeItemId)

stageName(stage) == <<stage, "done">>
stageNameRunning(stage) == <<stage, "processing">>
stageNameFailed(stage) == <<stage, "failed">>

Placeholder == <<-4>>
FailureMarker == <<-3>>

\* what processTextStage returns for the text it is given
StageText(text) == <<-2>> \o text

\* lines 364-390: runStage up to its await, called by StageManager.executeRun
\* with the parent id selected there (any id the panel has held)
runStageWithin(stage, parentVersionId, limit) ==
  LET a == activeItem(mediaQueueRef) IN
  IF a = 0 \/ ~apiKey
  THEN UNCHANGED <<mediaQueue, syncStatus, stages, nextId, used>>
  ELSE
    LET item == mediaQueueRef[a]
        IsParent(v) == v.id = parentVersionId
        p == Find(item.versions, IsParent)
    IN
    IF p = 0
    THEN UNCHANGED <<mediaQueue, syncStatus, stages, nextId, used>>
    ELSE
      LET newVersion == NewVersion(nextId, stage, stageNameRunning(stage),
                                   Placeholder, parentVersionId)
      IN /\ Len(stages) < limit
         /\ Event
         /\ mediaQueue' = updateItem(addVersionToItem(mediaQueue, item.id, newVersion, TRUE),
                                     item.id, [status |-> "processing", progress |-> 0])
         /\ syncStatus' = "idle"
         /\ stages' = Append(stages, [pc |-> "call", activeItem |-> item, stage |-> stage,
                                      parentVersion |-> item.versions[p],
                                      newVersion |-> newVersion])
         /\ nextId' = nextId + 1

\* an id that is no version of the item stands for the item's first version
runStage_anyParent(stage, parentVersionId) ==
  LET a == activeItem(mediaQueueRef) IN
  IF a = 0 \/ ~apiKey \/ mediaQueueRef[a].versions = <<>>
  THEN UNCHANGED <<mediaQueue, syncStatus, stages, nextId, used>>
  ELSE
    LET item == mediaQueueRef[a]
        IsParent(v) == v.id = parentVersionId
        found == Find(item.versions, IsParent)
        p == IF found = 0 THEN 1 ELSE found
        newVersion == NewVersion(nextId, stage, stageNameRunning(stage),
                                 Placeholder, item.versions[p].id)
    IN /\ Len(stages) < MaxStages
       /\ Event
       /\ mediaQueue' = updateItem(addVersionToItem(mediaQueue, item.id, newVersion, TRUE),
                                   item.id, [status |-> "processing", progress |-> 0])
       /\ syncStatus' = "idle"
       /\ stages' = Append(stages, [pc |-> "call", activeItem |-> item, stage |-> stage,
                                    parentVersion |-> item.versions[p],
                                    newVersion |-> newVersion])
       /\ nextId' = nextId + 1

runStage(stage, parentVersionId) == runStageWithin(stage, parentVersionId, MaxStages)

\* A stage run that has returned: its locals are dead, what it did is kept
StageEnded(st, pc) ==
  [st EXCEPT !.pc = pc, !.activeItem = [id |-> st.activeItem.id],
             !.parentVersion = [id |-> st.parentVersion.id]]

\* one call of runStage from the stage panel, and the render that follows it
StageCall(stage, parentVersionId) ==
  /\ runStage(stage, parentVersionId)
  /\ mediaQueueRef' = mediaQueue'
  /\ UNCHANGED <<apiKey, showKeyModal, refused, activeItemId, runs, saves, storage, adapter, slicer, manager, clock>>

ClickRunStage ==
  \E stage \in DerivedStages, parentVersionId \in 1..(nextId - 1) :
    StageCall(stage, parentVersionId)

\* the result is written to the parent version
StageDoneQueue_parent(q, st, result) ==
  patchVersion(updateItem(q, st.activeItem.id, [status |-> "completed", progress |-> 100]),
               st.activeItem.id, st.parentVersion.id,
               [content |-> result, name |-> stageName(st.stage)])

\* lines 412-422: the live item when processTextStage has returned
StageDoneQueue(q, st, result) ==
  patchVersion(updateItem(q, st.activeItem.id, [status |-> "completed", progress |-> 100]),
               st.activeItem.id, st.newVersion.id,
               [content |-> result, name |-> stageName(st.stage)])

\* lines 427-433: the snapshot saved after a stage
stageItemToSave(st, result) ==
  Merge(st.activeItem,
        [status |-> "completed", progress |-> 100,
         versions |-> Append(st.activeItem.versions,
                             Merge(st.newVersion,
                                   [content |-> result, name |-> stageName(st.stage)]))])

StageOk(s) ==
  /\ stages[s].pc = "call"
  /\ Rendered
  /\ LET st == stages[s]
         result == StageText(st.parentVersion.content)
     IN /\ mediaQueue' = StageDoneQueue(mediaQueue, st, result)
        /\ saves' = Append(saves, [item |-> serializeItem(stageItemToSave(st, result)),
                                   isAuto |-> TRUE])
  /\ syncStatus' = "saving"
  /\ stages' = [stages EXCEPT ![s] = StageEnded(stages[s], "done")]
  /\ UNCHANGED <<apiKey, showKeyModal, refused, mediaQueueRef, activeItemId, runs,
                 storage, nextId, used, adapter, slicer, manager, clock>>

\* the failed version is taken out of the list
StageFailQueue_removes(q, st) ==
  LET k == IdIndex(q, st.activeItem.id)
      Kept(v) == v.id # st.newVersion.id
  IN  IF k = 0 THEN q
      ELSE [q EXCEPT ![k] = Merge(q[k], [status |-> "error", progress |-> 0,
                                         versions |-> SelectSeq(q[k].versions, Kept)])]

\* lines 436-448: the catch block of runStage
StageFailQueue(q, st) ==
  patchVersion(updateItem(q, st.activeItem.id, [status |-> "error", progress |-> 0]),
               st.activeItem.id, st.newVersion.id,
               [content |-> FailureMarker, name |-> stageNameFailed(st.stage)])

StageFail(s) ==
  /\ stages[s].pc = "call"
  /\ Rendered
  /\ mediaQueue' = StageFailQueue(mediaQueue, stages[s])
  /\ syncStatus' = "idle"
  /\ stages' = [stages EXCEPT ![s] = StageEnded(stages[s], "failed")]
  /\ UNCHANGED <<apiKey, showKeyModal, refused, mediaQueueRef, activeItemId, runs,
                 saves, storage, nextId, used, adapter, slicer, manager, clock>>

----------------------------------------------------------------------------
(* Editing, viewing, selecting *)

Edited == <<-5>>

\* lines 466-479, reached from RichTextEditor.handleInput unless isReadOnly
editContent(q, item, newContent) ==
  patchVersion(q, item.id, item.currentVersionId, [content |-> newContent])

handleContentUpdate ==
  /\ activeItem(mediaQueueRef) # 0
  /\ LET item == mediaQueueRef[activeItem(mediaQueueRef)] IN
       /\ item.status # "processing"
       /\ item.currentVersionId # Null
       /\ Event
       /\ mediaQueue' = editContent(mediaQueue, item, Edited)
       /\ mediaQueue' # mediaQueue
  /\ mediaQueueRef' = mediaQueue'
  /\ syncStatus' = "idle"
  /\ UNCHANGED <<apiKey, showKeyModal, refused, activeItemId, runs, stages, saves,
                 storage, nextId, adapter, slicer, manager, clock>>

\* onViewVersion selecting the parent of the clicked version instead of the
\* version itself
onViewVersion_parent ==
  /\ activeItem(mediaQueueRef) # 0
  /\ LET item == mediaQueueRef[activeItem(mediaQueueRef)] IN
       \E j \in 1..Len(item.versions) :
         /\ mediaQueue' = updateItem(mediaQueue, item.id,
                                     [currentVersionId |-> item.versions[j].parentId])
         /\ mediaQueue' # mediaQueue
  /\ Event
  /\ mediaQueueRef' = mediaQueue'
  /\ UNCHANGED <<apiKey, showKeyModal, refused, activeItemId, syncStatus, runs, stages,
                 saves, storage, nextId, adapter, slicer, manager, clock>>

\* line 854: onViewVersion={(v) => updateItem(activeItem.id, { currentVersionId: v.id })}
onViewVersion ==
  /\ activeItem(mediaQueueRef) # 0
  /\ LET item == mediaQueueRef[activeItem(mediaQueueRef)] IN
       \E j \in 1..Len(item.versions) :
         /\ mediaQueue' = updateItem(mediaQueue, item.id,
                                     [currentVersionId |-> item.versions[j].id])
         /\ mediaQueue' # mediaQueue
  /\ Event
  /\ mediaQueueRef' = mediaQueue'
  /\ UNCHANGED <<apiKey, showKeyModal, refused, activeItemId, syncStatus, runs, stages,
                 saves, storage, nextId, adapter, slicer, manager, clock>>

\* line 661: onClick={() => setActiveItemId(item.id)}
selectItem ==
  /\ \E k \in 1..Len(mediaQueueRef) :
       /\ mediaQueueRef[k].id # activeItemId
       /\ activeItemId' = mediaQueueRef[k].id
  /\ Event
  /\ UNCHANGED <<apiKey, showKeyModal, refused, mediaQueue, mediaQueueRef, syncStatus,
                 runs, stages, saves, storage, nextId, adapter, slicer, manager, clock>>

\* the key modal: a key is typed (setApiKey) and the modal is closed
enterApiKey ==
  /\ ~apiKey
  /\ apiKey' = TRUE
  /\ showKeyModal' = FALSE
  /\ refused' = IF refused = "key" THEN "none" ELSE refused
  /\ UNCHANGED <<mediaQueue, mediaQueueRef, activeItemId,
                 syncStatus, runs, stages, saves, storage, nextId, used, adapter, slicer, manager, clock>>

----------------------------------------------------------------------------
(* Durable storage *)

\* upsert({ id: item.id, content: serialized, ... })
upsert(rows, item) == {x \in rows : x.id # item.id} \cup {item}

\* the save button: handleSaveToCloud(activeItem), offered with a current version
handleSaveToCloud ==
  /\ activeItem(mediaQueueRef) # 0
  /\ Event
  /\ LET item == mediaQueueRef[activeItem(mediaQueueRef)]
         IsCurrent(v) == v.id = item.currentVersionId
     IN /\ Find(item.versions, IsCurrent) # 0
        /\ saves' = Append(saves, [item |-> serializeItem(item), isAuto |-> FALSE])
  /\ syncStatus' = "saving"
  /\ UNCHANGED <<apiKey, showKeyModal, refused, mediaQueue, mediaQueueRef, activeItemId,
                 runs, stages, storage, nextId, adapter, slicer, manager, clock>>

Without(s, k) == [j \in 1..(Len(s) - 1) |-> IF j < k THEN s[j] ELSE s[j + 1]]

\* lines 121-123 and saveProjectToSupabase: the upsert succeeds
SaveOk(k) ==
  /\ storage' = upsert(storage, saves[k].item)
  /\ saves' = Without(saves, k)
  /\ syncStatus' = "saved"
  /\ clock' = [clock EXCEPT !.lastSaved = clock.now]
  /\ UNCHANGED <<apiKey, showKeyModal, refused, mediaQueue, mediaQueueRef, activeItemId,
                 runs, stages, nextId, used, adapter, slicer, manager>>

\* the time of the last save is set whether or not the upsert succeeded
SaveFail_advances(k) ==
  /\ saves' = Without(saves, k)
  /\ syncStatus' = "error"
  /\ clock' = [clock EXCEPT !.lastSaved = clock.now]
  /\ UNCHANGED <<apiKey, showKeyModal, refused, mediaQueue, mediaQueueRef, activeItemId,
                 runs, stages, storage, nextId, used, adapter, slicer, manager>>

\* lines 127-130: the upsert fails
SaveFail(k) ==
  /\ saves' = Without(saves, k)
  /\ syncStatus' = "error"
  /\ UNCHANGED <<apiKey, showKeyModal, refused, mediaQueue, mediaQueueRef, activeItemId,
                 runs, stages, storage, nextId, used, adapter, slicer, manager, clock>>

\* FileManager.handleLoad: { ...content, id: project.id, file: null }
restoredItem(row) == [row EXCEPT !.file = NoFile]

\* FileManager.handleLoad and handleLoadProject
handleLoadProject ==
  /\ \E row \in storage :
       /\ mediaQueue' = IF IdIndex(mediaQueueRef, row.id) = 0
                        THEN Append(mediaQueue, restoredItem(row))
                        ELSE mediaQueue
       /\ activeItemId' = row.id
       /\ <<mediaQueue', activeItemId'>> # <<mediaQueue, activeItemId>>
  /\ Event
  /\ mediaQueueRef' = mediaQueue'
  /\ UNCHANGED <<apiKey, showKeyModal, refused, syncStatus, runs, stages, saves,
                 storage, nextId, adapter, slicer, manager, clock>>

\* the page is loaded again: every useState and useRef of App starts over, the
\* pending tasks are gone, the stored rows stay
Reload ==
  /\ Event
  /\ storage # {}
  /\ apiKey' = FALSE
  /\ showKeyModal' = TRUE
  /\ refused' = "none"
  /\ mediaQueue' = <<>>
  /\ mediaQueueRef' = <<>>
  /\ activeItemId' = Null
  /\ syncStatus' = "idle"
  /\ runs' = <<>>
  /\ stages' = <<>>
  /\ saves' = <<>>
  /\ clock' = [clock EXCEPT !.lastSaved = clock.now]
  /\ UNCHANGED <<storage, nextId, adapter, slicer, manager>>

----------------------------------------------------------------------------
Next ==
  \/ Render
  \/ handleFileUpload
  \/ ClickStart
  \/ handleOnline
  \/ \E r \in 1..Len(runs) : Decoded(r)
  \/ \E r \in 1..Len(runs) : TranscribeOk(r)
  \/ \E r \in 1..Len(runs) : RunFails(r)
  \/ ClickRunStage
  \/ \E s \in 1..Len(stages) : StageOk(s)
  \/ \E s \in 1..Len(stages) : StageFail(s)
  \/ handleContentUpdate
  \/ onViewVersion
  \/ selectItem
  \/ enterApiKey
  \/ handleSaveToCloud
  \/ \E k \in 1..Len(saves) : SaveOk(k)
  \/ \E k \in 1..Len(saves) : SaveFail(k)
  \/ handleLoadProject
  \/ Reload

Spec == Init /\ [][Next]_vars

----------------------------------------------------------------------------
(* startTranscription called on any rendered item with either flag. The
   program's buttons pass resume exactly when the item is paused, so the
   restart of lines 204-222 and the branches of lines 190 and 226 are entered
   only this way. SpecCall has the operations on the versions of live items:
   start, resume, restart, checkpoint, completion, failure, stage run, content
   edit and view of a version. *)

AnyStart ==
  /\ apiKey
  /\ \E k \in 1..Len(mediaQueueRef), isResuming \in BOOLEAN :
       LET item == mediaQueueRef[k] IN
       \E ask \in Asks(item, isResuming) : startTranscription(item, isResuming, ask)
  /\ mediaQueueRef' = mediaQueue'
  /\ UNCHANGED <<apiKey, activeItemId, stages, saves, storage, adapter, slicer, manager, clock>>

CallStart ==
  /\ Len(runs) < MaxCalls
  /\ AnyStart

NextCall ==
  \/ Render
  \/ enterApiKey
  \/ handleFileUpload
  \/ CallStart
  \/ \E r \in 1..Len(runs) : Decoded(r)
  \/ \E r \in 1..Len(runs) : TranscribeOk(r)
  \/ \E r \in 1..Len(runs) : RunFails(r)
  \/ ClickRunStage
  \/ \E s \in 1..Len(stages) : StageOk(s)
  \/ \E s \in 1..Len(stages) : StageFail(s)
  \/ handleContentUpdate
  \/ onViewVersion

SpecCall == Init /\ [][NextCall]_vars

----------------------------------------------------------------------------
(* Start, restart and resume of one item in a row: startTranscription called
   up to MaxStarts times, with the steps of its runs and nothing else. *)

CallStartAgain ==
  /\ Len(runs) < MaxStarts
  /\ AnyStart

NextRestart ==
  \/ Render
  \/ enterApiKey
  \/ handleFileUpload
  \/ CallStartAgain
  \/ \E r \in 1..Len(runs) : Decoded(r)
  \/ \E r \in 1..Len(runs) : TranscribeOk(r)
  \/ \E r \in 1..Len(runs) : RunFails(r)

SpecRestart == Init /\ [][NextRestart]_vars

----------------------------------------------------------------------------
(* The start buttons and the reconnection listener with up to MaxResumes
   starts of one session: a failed first run, two resumes of the paused item
   that overlap, and a resume clicked while one of them is still running. *)

ClickStartAgain ==
  \E k \in 1..Len(mediaQueueRef) :
    LET item == mediaQueueRef[k] IN
    /\ StartOffered(item)
    /\ \E ask \in Asks(item, item.status = "paused") :
         startTranscriptionWithin(item, item.status = "paused", ask, MaxResumes)
    /\ mediaQueueRef' = mediaQueue'
    /\ UNCHANGED <<apiKey, activeItemId, stages, saves, storage, adapter, slicer, manager, clock>>

handleOnlineAgain ==
  /\ pausedItem(mediaQueueRef) # 0
  /\ apiKey
  /\ LET item == mediaQueueRef[pausedItem(mediaQueueRef)] IN
       \E ask \in Asks(item, TRUE) : startTranscriptionWithin(item, TRUE, ask, MaxResumes)
  /\ UNCHANGED <<apiKey, mediaQueueRef, activeItemId, stages, saves, storage, adapter, slicer, manager, clock>>

NextResume ==
  \/ Render
  \/ enterApiKey
  \/ handleFileUpload
  \/ ClickStartAgain
  \/ handleOnlineAgain
  \/ \E r \in 1..Len(runs) : Decoded(r)
  \/ \E r \in 1..Len(runs) : TranscribeOk(r)
  \/ \E r \in 1..Len(runs) : RunFails(r)

SpecResume == Init /\ [][NextResume]_vars

----------------------------------------------------------------------------
(* The pause the loop looks for at lines 256-262. No handler of the program
   sets status 'paused' without an error; the specification's user pause does:
   it is taken here from the specification, and only SpecPause has it. *)

UserPause ==
  /\ \E k \in 1..Len(mediaQueueRef) :
       /\ mediaQueueRef[k].status = "processing"
       /\ mediaQueue' = updateItem(mediaQueue, mediaQueueRef[k].id, [status |-> "paused"])
  /\ Event
  /\ syncStatus' = "idle"
  /\ mediaQueueRef' = mediaQueue'
  /\ UNCHANGED <<apiKey, showKeyModal, refused, activeItemId, runs, stages, saves,
                 storage, nextId, adapter, slicer, manager, clock>>

NextPause == Next \/ UserPause

SpecPause == Init /\ [][NextPause]_vars

----------------------------------------------------------------------------
(* The auto-save effect of lines 56-70. Time goes by in ticks of the interval
   (10 s); Date.now() is clock.now ticks after the mount. The callback sees
   the rendered activeItem and syncStatus, the effect being set up again after
   every render that changes either of them. *)

\* the test is on the status alone
autoSaveDue_always(q, sync, c) ==
  /\ activeItem(q) # 0
  /\ q[activeItem(q)].status = "completed"

\* lines 61-63: the test of the interval callback
autoSaveDue(q, sync, c) ==
  /\ activeItem(q) # 0
  /\ q[activeItem(q)].status = "completed"
  /\ sync # "saving"
  /\ (c.now - c.lastSaved) * CHECK_SECONDS > SAVE_AFTER_SECONDS

\* lines 58-67: the interval fires and handleSaveToCloud(activeItem, true) is
\* called up to its await
autoSaveCheck ==
  /\ clock.now < MaxTicks
  /\ clock' = [clock EXCEPT !.now = @ + 1, !.checked = TRUE]
  /\ IF autoSaveDue(mediaQueueRef, syncStatus, clock')
     THEN /\ saves' = Append(saves, [item |-> serializeItem(mediaQueueRef[activeItem(mediaQueueRef)]),
                                     isAuto |-> TRUE])
          /\ syncStatus' = "saving"
     ELSE UNCHANGED <<saves, syncStatus>>
  /\ UNCHANGED <<apiKey, showKeyModal, refused, mediaQueue, mediaQueueRef, activeItemId,
                 runs, stages, storage, nextId, used, adapter, slicer, manager>>

\* lines 69-70: the interval was cleared and set again by a render before it
\* fired, and a tick goes by without the callback
TimePasses ==
  /\ clock.now < MaxTicks
  /\ clock' = [clock EXCEPT !.now = @ + 1, !.checked = FALSE]
  /\ UNCHANGED <<appVars, adapter, slicer, manager>>

NextAuto ==
  \/ Render
  \/ enterApiKey
  \/ handleFileUpload
  \/ ClickStart
  \/ \E r \in 1..Len(runs) : Decoded(r)
  \/ \E r \in 1..Len(runs) : TranscribeOk(r)
  \/ \E r \in 1..Len(runs) : RunFails(r)
  \/ ClickRunStage
  \/ \E s \in 1..Len(stages) : StageOk(s)
  \/ \E s \in 1..Len(stages) : StageFail(s)
  \/ \E k \in 1..Len(saves) : SaveOk(k)
  \/ \E k \in 1..Len(saves) : SaveFail(k)
  \/ autoSaveCheck
  \/ TimePasses

SpecAuto == Init /\ [][NextAuto]_vars

----------------------------------------------------------------------------
(* Stage runs in flight together: the stage panel is enabled whenever the
   item has a version (MediaPlayer line 273), so runStage can be called again
   before an earlier call has returned. *)

ClickRunStageAgain ==
  /\ \E stage \in DerivedStages, parentVersionId \in 1..(nextId - 1) :
       runStageWithin(stage, parentVersionId, MaxOverlap)
  /\ mediaQueueRef' = mediaQueue'
  /\ UNCHANGED <<apiKey, showKeyModal, refused, activeItemId, runs, saves, storage, adapter, slicer, manager, clock>>

NextStages ==
  \/ Render
  \/ enterApiKey
  \/ handleFileUpload
  \/ ClickStart
  \/ ClickRunStageAgain
  \/ \E s \in 1..Len(stages) : StageOk(s)
  \/ \E s \in 1..Len(stages) : StageFail(s)

SpecStages == Init /\ [][NextStages]_vars

----------------------------------------------------------------------------
(* The progress interval of runStage, lines 392-399: every 800 ms until the
   stage call has returned, a functional update on the live queue. *)

\* the update of line 393-398 on the queue
progressQueue(q, id) ==
  LET k == IdIndex(q, id) IN
  IF k = 0 \/ q[k].status # "processing" THEN q
  ELSE updateItem(q, id, [progress |-> IF q[k].progress + STEP_PERCENT < CAP_PERCENT
                                       THEN q[k].progress + STEP_PERCENT
                                       ELSE CAP_PERCENT])

progressTick(s) ==
  /\ stages[s].pc = "call"
  /\ mediaQueue' = progressQueue(mediaQueue, stages[s].activeItem.id)
  /\ mediaQueue' # mediaQueue
  /\ UNCHANGED <<apiKey, showKeyModal, refused, mediaQueueRef, activeItemId, syncStatus,
                 runs, stages, saves, storage, nextId, used, adapter, slicer, manager, clock>>

NextProgress ==
  \/ Render
  \/ enterApiKey
  \/ handleFileUpload
  \/ ClickStart
  \/ \E r \in 1..Len(runs) : Decoded(r)
  \/ \E r \in 1..Len(runs) : TranscribeOk(r)
  \/ \E r \in 1..Len(runs) : RunFails(r)
  \/ ClickRunStage
  \/ \E s \in 1..Len(stages) : progressTick(s)
  \/ \E s \in 1..Len(stages) : StageOk(s)
  \/ \E s \in 1..Len(stages) : StageFail(s)

SpecProgress == Init /\ [][NextProgress]_vars

----------------------------------------------------------------------------
(* Transcriptions and stage runs that all succeed, stage runs in flight
   together included, and their saves, which all succeed, in any order of
   arrival. *)

NextSettle ==
  \/ Render
  \/ enterApiKey
  \/ handleFileUpload
  \/ ClickStart
  \/ \E r \in 1..Len(runs) : Decoded(r)
  \/ \E r \in 1..Len(runs) : TranscribeOk(r)
  \/ ClickRunStageAgain
  \/ \E s \in 1..Len(stages) : StageOk(s)
  \/ \E k \in 1..Len(saves) : SaveOk(k)

SpecSettle == Init /\ [][NextSettle]_vars

----------------------------------------------------------------------------
(* The reconnection listener on a page opened over the rows of an earlier
   session. The stored row is the one the save button writes for an item whose
   run failed while decoding: Spec reaches it (upload, start, failure, save,
   reload); here the session starts from it, so that the restored item, a newly
   uploaded one and its failed run fit in one session. *)

\* the row saved for item 1 after its first run failed with msg
pausedRow(msg) ==
  LET item == NewItem(1, AudioSeconds)
      plan == StartPlan(item, FALSE, TRUE, 2)
      q == CatchQueue(StartQueue(<<item>>, plan), StartRun(plan), msg)
  IN serializeItem(q[1])

InitStored ==
  /\ apiKey = FALSE
  /\ showKeyModal = TRUE
  /\ refused = "none"
  /\ mediaQueue = <<>>
  /\ mediaQueueRef = <<>>
  /\ activeItemId = Null
  /\ syncStatus = "idle"
  /\ runs = <<>>
  /\ stages = <<>>
  /\ saves = <<>>
  /\ \E msg \in ErrMessages : storage = {pausedRow(msg)}
  /\ nextId = 3
  /\ used = [uploads |-> 0, events |-> 0]
  /\ adapter = NoRun
  /\ slicer = NoPass
  /\ manager = Closed
  /\ clock = Mounted(0)

NextReconnect ==
  \/ Render
  \/ enterApiKey
  \/ handleLoadProject
  \/ handleFileUpload
  \/ ClickStart
  \/ handleOnline
  \/ \E r \in 1..Len(runs) : Decoded(r)
  \/ \E r \in 1..Len(runs) : TranscribeOk(r)
  \/ \E r \in 1..Len(runs) : RunFails(r)

SpecReconnect == InitStored /\ [][NextReconnect]_vars

----------------------------------------------------------------------------
(* The remote call adapter of geminiService.ts, one call at a time *)

Fallbacks ==
  <<"gemini-3-flash-preview", "gemini-2.5-pro-preview", "gemini-2.5-flash-preview",
    "gemini-2.0-flash-exp", "gemini-1.5-flash">>

\* what selectedModel may be: the ids of AVAILABLE_MODELS
SelectableModels ==
  {"gemini-3-pro-preview", "gemini-3-flash-preview", "gemini-2.5-pro-preview",
   "gemini-2.5-flash-preview", "gemini-2.0-flash-exp", "gemini-1.5-pro",
   "gemini-1.5-flash", "gemini-1.5-flash-8b"}

\* const MODELS_TO_TRY = [selectedModel, ...]
MODELS_TO_TRY(selectedModel) == <<selectedModel>> \o Fallbacks

\* [...new Set(models)]: insertion order, first occurrence kept
RECURSIVE uniqueFrom(_, _, _)
uniqueFrom(models, k, acc) ==
  IF k > Len(models) THEN acc
  ELSE IF \E j \in 1..Len(acc) : acc[j] = models[k]
       THEN uniqueFrom(models, k + 1, acc)
       ELSE uniqueFrom(models, k + 1, Append(acc, models[k]))

\* duplicates are kept
uniqueModels_all(selectedModel) == MODELS_TO_TRY(selectedModel)

uniqueModels(selectedModel) == uniqueFrom(MODELS_TO_TRY(selectedModel), 1, <<>>)

MaxAttempts == 3

RECURSIVE Pow2(_)
Pow2(n) == IF n = 0 THEN 1 ELSE 2 * Pow2(n - 1)

\* 1000 * Math.pow(2, attempt - 1)
backoffDelay(attempt) == 1000 * Pow2(attempt - 1)

\* how many times a model is asked before the next one is: the inner for loop of
\* transcribeSegment, the single try of processTextStage
attemptsPerModel(fn) == IF fn = "transcribeSegment" THEN MaxAttempts ELSE 1

\* a call is made: generateContent is awaited on the first model
AdapterCall ==
  /\ adapter = NoRun
  /\ \E fn \in {"transcribeSegment", "processTextStage"}, selectedModel \in SelectableModels :
       LET models == uniqueModels(selectedModel) IN
       adapter' = [pc |-> "request", fn |-> fn, selectedModel |-> selectedModel,
                   models |-> models, m |-> 1, attempt |-> 1,
                   log |-> <<models[1]>>, delays |-> <<>>, lastError |-> 0]
  /\ UNCHANGED <<appVars, slicer, manager, clock>>

\* generateContent resolves: return cleanResponse(response.text || "")
AttemptOk ==
  /\ adapter.pc = "request"
  /\ adapter' = [adapter EXCEPT !.pc = "returned"]
  /\ UNCHANGED <<appVars, slicer, manager, clock>>

\* a failure sends the next request to the next model at once
AfterFailure_nextModel(a) ==
  IF a.m < Len(a.models)
  THEN [a EXCEPT !.pc = "request", !.m = @ + 1, !.attempt = 1,
                 !.log = Append(@, a.models[a.m + 1])]
  ELSE [a EXCEPT !.pc = "raised"]

\* the request that follows a failure, or the throw when none does
AfterFailure(a) ==
  IF a.attempt < attemptsPerModel(a.fn)
  THEN [a EXCEPT !.pc = "request", !.attempt = @ + 1,
                 !.log = Append(@, a.models[a.m])]
  ELSE IF a.m < Len(a.models)
  THEN [a EXCEPT !.pc = "request", !.m = @ + 1, !.attempt = 1,
                 !.log = Append(@, a.models[a.m + 1])]
  ELSE [a EXCEPT !.pc = "raised"]

\* generateContent rejects. transcribeSegment keeps the error and awaits the
\* backoff timer; processTextStage goes on to the next model, or rethrows on
\* the last one.
AttemptFails ==
  /\ adapter.pc = "request"
  /\ adapter' =
       IF adapter.fn = "transcribeSegment"
       THEN [adapter EXCEPT !.pc = "backoff", !.lastError = Len(adapter.log),
                            !.delays = Append(@, backoffDelay(adapter.attempt))]
       ELSE AfterFailure([adapter EXCEPT !.lastError = Len(adapter.log)])
  /\ UNCHANGED <<appVars, slicer, manager, clock>>

\* the backoff timer of transcribeSegment fires
BackoffElapsed ==
  /\ adapter.pc = "backoff"
  /\ adapter' = AfterFailure(adapter)
  /\ UNCHANGED <<appVars, slicer, manager, clock>>

\* the caller has the result or the error; the next call may be made
AdapterDone ==
  /\ adapter # NoRun
  /\ adapter.pc \in {"returned", "raised"}
  /\ adapter' = NoRun
  /\ UNCHANGED <<appVars, slicer, manager, clock>>

NextAdapter ==
  \/ AdapterCall
  \/ AttemptOk
  \/ AttemptFails
  \/ BackoffElapsed
  \/ AdapterDone

SpecAdapter == Init /\ [][NextAdapter]_vars

----------------------------------------------------------------------------
(* The windows of a recording: the count of part_000 lines 236-250, the loop
   and the start time of lines 255 and 264, and the length sliceAudioBuffer
   renders (geminiService.ts lines 73-82). Times are whole numbers of one
   unit; the window is a parameter as it is of sliceAudioBuffer, the program
   passing CHUNK_DURATION. *)

\* the recordings and windows of a pass: the short ones, the short recordings
\* under the program's window, and 500 units under the program's window
Passes ==
  ((1..MaxDuration) \X ((1..MaxWindow) \cup {CHUNK_DURATION}))
    \cup {<<2 * CHUNK_DURATION + 20, CHUNK_DURATION>>}

\* every window has the length asked for
actualDuration_whole(sourceTotalDuration, startTime, duration) == duration

\* geminiService.ts lines 73-82: the time rendered into the chunk, none for
\* the empty blob of line 77
actualDuration(sourceTotalDuration, startTime, duration) ==
  IF startTime >= sourceTotalDuration
  THEN 0
  ELSE IF duration <= sourceTotalDuration - startTime
       THEN duration
       ELSE sourceTotalDuration - startTime

\* a run is started from index 0 on a recording of any duration
InitSlicer ==
  /\ apiKey = FALSE
  /\ showKeyModal = TRUE
  /\ refused = "none"
  /\ mediaQueue = <<>>
  /\ mediaQueueRef = <<>>
  /\ activeItemId = Null
  /\ syncStatus = "idle"
  /\ runs = <<>>
  /\ stages = <<>>
  /\ saves = <<>>
  /\ storage = {}
  /\ nextId = 1
  /\ used = [uploads |-> 0, events |-> 0]
  /\ adapter = NoRun
  /\ manager = Closed
  /\ clock = Mounted(0)
  /\ \E pass \in Passes :
       slicer = [pc |-> "decode", duration |-> pass[1], window |-> pass[2],
                 currentTotalChunks |-> 0, i |-> 0, chunks |-> <<>>]

\* lines 236-250: currentTotalChunks = Math.ceil(currentDuration / CHUNK_DURATION)
SliceDecoded ==
  /\ slicer.pc = "decode"
  /\ slicer' = [slicer EXCEPT !.pc = "loop",
                  !.currentTotalChunks = Ceil(slicer.duration, slicer.window)]
  /\ UNCHANGED <<appVars, adapter, manager, clock>>

\* lines 255, 264 and 271: one iteration, startTime = i * CHUNK_DURATION and
\* sliceAudioBuffer(audioBuffer, startTime, CHUNK_DURATION)
SliceChunk ==
  /\ slicer.pc = "loop"
  /\ slicer.i < slicer.currentTotalChunks
  /\ LET startTime == slicer.i * slicer.window IN
       slicer' = [slicer EXCEPT !.i = @ + 1,
                    !.chunks = Append(@, [startTime |-> startTime,
                                          length |-> actualDuration(slicer.duration, startTime,
                                                                    slicer.window)])]
  /\ UNCHANGED <<appVars, adapter, manager, clock>>

\* line 255: the loop ends at i = currentTotalChunks
SliceEnd ==
  /\ slicer.pc = "loop"
  /\ slicer.i >= slicer.currentTotalChunks
  /\ slicer' = [slicer EXCEPT !.pc = "done"]
  /\ UNCHANGED <<appVars, adapter, manager, clock>>

NextSlicer ==
  \/ SliceDecoded
  \/ SliceChunk
  \/ SliceEnd

SpecSlicer == InitSlicer /\ [][NextSlicer]_vars

----------------------------------------------------------------------------
(* FileManager and deleteProjectFromSupabase (src/components/FileManager.tsx
   and src/services/supabaseClient.ts lines 53-90). The table is storage;
   one delete call is followed at a time. *)

\* the delete response carries no count (count === null)
NoCount == -1

\* a response without an error (error === null)
NoError == "null"

\* the messages of lines 66 and 86, and the fallback of FileManager line 79
NotFoundMessage == "not found or not readable"
PolicyBlockedMessage == "delete blocked (RLS)"
FallbackMessage == "something went wrong"

\* setError(null)
NoShownError == <<>>

\* no delete has been called since the list was fetched
NoCall == [id |-> Null, check |-> "none", error |-> NoError, count |-> NoCount,
           outcome |-> "none"]

SavedRows == {serializeItem(NewItem(id, NoFile)) : id \in 1..MaxRows}

RowIds(rows) == {row.id : row \in rows}

\* the rows the delete request removes
deleted(rows, id) == {row \in rows : row.id # id}

\* only a count of 0 is taken for a blocked delete
deleteOutcome_zeroOnly(error, count) ==
  IF error # NoError THEN error
  ELSE IF count = 0 THEN PolicyBlockedMessage
  ELSE "true"

\* lines 77-89: what deleteProjectFromSupabase does with the delete response,
\* the message it throws or "true"
deleteOutcome(error, count) ==
  IF error # NoError THEN error
  ELSE IF count = 0 \/ count = NoCount THEN PolicyBlockedMessage
  ELSE "true"

\* FileManager line 79: 'delete failed: ' + (err.message || fallback)
shownError(message) ==
  <<"delete failed", IF message = "" THEN FallbackMessage ELSE message>>

\* the table holds any of the saved projects when the manager is opened
InitManager ==
  /\ apiKey = FALSE
  /\ showKeyModal = TRUE
  /\ refused = "none"
  /\ mediaQueue = <<>>
  /\ mediaQueueRef = <<>>
  /\ activeItemId = Null
  /\ syncStatus = "idle"
  /\ runs = <<>>
  /\ stages = <<>>
  /\ saves = <<>>
  /\ storage \in SUBSET SavedRows
  /\ nextId = 1
  /\ used = [uploads |-> 0, events |-> 0]
  /\ adapter = NoRun
  /\ slicer = NoPass
  /\ manager = Closed
  /\ clock = Mounted(0)

\* FileManager lines 39-56: the list is fetched when the manager opens
fetchProjects ==
  /\ manager = Closed
  /\ \E ok \in BOOLEAN :
       manager' = [pc |-> "idle",
                   projects |-> IF ok THEN RowIds(storage) ELSE {},
                   confirm |-> Null,
                   error |-> IF ok THEN NoShownError ELSE <<"list failed">>,
                   last |-> NoCall]
  /\ UNCHANGED <<appVars, adapter, slicer, clock>>

\* FileManager lines 58-63: the bin of a listed project
promptDelete ==
  /\ manager.pc = "idle"
  /\ \E id \in manager.projects : manager' = [manager EXCEPT !.confirm = id]
  /\ manager' # manager
  /\ UNCHANGED <<appVars, adapter, slicer, clock>>

\* FileManager line 332: the cancel button of the confirmation
cancelDelete ==
  /\ manager.pc = "idle"
  /\ manager.confirm # Null
  /\ manager' = [manager EXCEPT !.confirm = Null]
  /\ UNCHANGED <<appVars, adapter, slicer, clock>>

\* FileManager lines 65-73 and supabaseClient lines 57-62: the confirmation
\* is closed and the existence check is awaited
performDelete ==
  /\ manager.pc = "idle"
  /\ manager.confirm # Null
  /\ manager' = [manager EXCEPT !.pc = "check", !.confirm = Null,
                    !.last = [NoCall EXCEPT !.id = manager.confirm]]
  /\ UNCHANGED <<appVars, adapter, slicer, clock>>

\* supabaseClient lines 64-74: the existence check returns; a row that is
\* there may still not be readable; without an error the delete is awaited
CheckReturns ==
  /\ manager.pc = "check"
  /\ \E found \in {f \in BOOLEAN : f => manager.last.id \in RowIds(storage)} :
       manager' =
         IF found
         THEN [manager EXCEPT !.pc = "delete", !.last.check = "ok"]
         ELSE [manager EXCEPT !.pc = "idle", !.last.check = "error",
                 !.last.outcome = NotFoundMessage,
                 !.error = shownError(NotFoundMessage)]
  /\ UNCHANGED <<appVars, adapter, slicer, clock>>

\* the responses the delete request can have: an error; no error with the
\* row removed and counted, or removed without a count; no error with no row
\* removed, counted 0 or not counted
DeleteResponses(id) ==
  {[error |-> e, count |-> NoCount, removes |-> FALSE] : e \in ErrMessages}
    \cup {[error |-> NoError, count |-> c, removes |-> FALSE] : c \in {0, NoCount}}
    \cup {[error |-> NoError, count |-> c, removes |-> TRUE] :
             c \in {c \in {1, NoCount} : id \in RowIds(storage)}}

\* supabaseClient lines 77-89 and FileManager lines 75-82: the delete request
\* returns
DeleteReturns ==
  /\ manager.pc = "delete"
  /\ \E response \in DeleteResponses(manager.last.id) :
       LET outcome == deleteOutcome(response.error, response.count) IN
       /\ storage' = IF response.removes THEN deleted(storage, manager.last.id)
                                         ELSE storage
       /\ manager' = [manager EXCEPT
                        !.pc = "idle",
                        !.last.error = response.error,
                        !.last.count = response.count,
                        !.last.outcome = outcome,
                        !.projects = IF outcome = "true" THEN @ \ {manager.last.id} ELSE @,
                        !.error = IF outcome = "true" THEN @ ELSE shownError(outcome)]
  /\ UNCHANGED <<apiKey, showKeyModal, refused, mediaQueue, mediaQueueRef, activeItemId,
                 syncStatus, runs, stages, saves, nextId, used, adapter, slicer, clock>>

NextManager ==
  \/ fetchProjects
  \/ promptDelete
  \/ cancelDelete
  \/ performDelete
  \/ CheckReturns
  \/ DeleteReturns

SpecManager == InitManager /\ [][NextManager]_vars

----------------------------------------------------------------------------
(* Vocabulary of the properties *)

Active(run) == run.pc \in {"decode", "call"}

RunsOn(id) == {r \in 1..Len(runs) : runs[r].item.id = id}

ActiveOn(id) == {r \in RunsOn(id) : Active(runs[r])}

\* the text of chunks 0..k-1, each followed by the separating blank
TextOf(k) == [j \in 1..(2 * k) |-> IF j % 2 = 1 THEN (j - 1) \div 2 ELSE SP]

FromTo(a, b) == [j \in 1..(b - a) |-> a + j - 1]

Range(s) == {s[j] : j \in 1..Len(s)}

VersionById(item, vid) ==
  LET Is(v) == v.id = vid IN Find(item.versions, Is)

Items == 1..Len(mediaQueue)

----------------------------------------------------------------------------
(* C1: at most one transcription loop is active per item: a start on an item
   whose live status is already 'processing' enters no second loop. *)
C1_AtMostOneActiveRun ==
  \A k \in Items : Cardinality(ActiveOn(mediaQueue[k].id)) <= 1

----------------------------------------------------------------------------
\* run r finishes its last chunk in this step
Completes(r) ==
  /\ r <= Len(runs)
  /\ runs[r].pc = "call"
  /\ Len(runs') = Len(runs)
  /\ runs'[r].pc = "done"
  /\ runs'[r].outcome = "completed"

LiveRawContent(q, run) ==
  LET k == IdIndex(q, run.item.id)
      j == VersionById(q[k], run.baseVersionId)
  IN  q[k].versions[j].content

(* C2 as stated: a resumed run that completes has sent exactly the chunks
   k..totalChunks-1, k being the checkpoint it resumed from, and leaves the
   RAW text of an uninterrupted run. *)
C2_ResumedRunAsStated ==
  [][\A r \in 1..Len(runs) :
       (Completes(r) /\ runs[r].isResuming) =>
          /\ runs[r].startIndex = runs[r].item.processedChunks
          /\ runs'[r].sent = FromTo(runs[r].startIndex, runs[r].currentTotalChunks)
          /\ LiveRawContent(mediaQueue', runs[r]) = TextOf(runs[r].currentTotalChunks)]_vars

\* the RAW text in the snapshot the run was started from
SeedText(run) ==
  LET Is(v) == v.id = run.baseVersionId
      j == Find(run.initialVersions, Is)
  IN  IF j = 0 THEN <<>> ELSE run.initialVersions[j].content

\* a text that carries no edit made by the user
Unedited(text) == Range(text) \cap Range(Edited) = {}

(* C2: a resumed run that completes, seeded from a RAW text the user has not
   edited while the item was paused, has sent exactly the chunks
   k..totalChunks-1 and leaves the RAW text of an uninterrupted run. *)
C2_ResumedRun ==
  [][\A r \in 1..Len(runs) :
       (Completes(r) /\ runs[r].isResuming
          /\ Unedited(SeedText(runs[r]))) =>
          /\ runs[r].startIndex = runs[r].item.processedChunks
          /\ runs'[r].sent = FromTo(runs[r].startIndex, runs[r].currentTotalChunks)
          /\ LiveRawContent(mediaQueue', runs[r]) = TextOf(runs[r].currentTotalChunks)]_vars

----------------------------------------------------------------------------
\* the RAW text of an item: that of its first RAW version
RawText(item) == item.versions[existingRaw(item)].content

(* C3: wherever the RAW text has not been edited by the user it is exactly
   the text of chunks 0..processedChunks-1; on an item with a single
   transcription run, processedChunks is the index of the chunk in flight,
   and a run that failed on chunk i has left processedChunks = i. *)
C3_Checkpoint ==
  \A k \in Items :
    LET item == mediaQueue[k] IN
      /\ (existingRaw(item) # 0 /\ Unedited(RawText(item))) =>
            RawText(item) = TextOf(item.processedChunks)
      /\ \A r \in RunsOn(item.id) :
           RunsOn(item.id) = {r} =>
             /\ runs[r].pc = "call" => item.processedChunks = runs[r].i
             /\ runs[r].outcome = "failed" =>
                  item.processedChunks = runs[r].i

\* a run has failed on chunk 1 after the checkpoint of chunk 0
C3_FailedInFlight ==
  \E k \in Items :
    LET item == mediaQueue[k] IN
      /\ RunsOn(item.id) # {}
      /\ \A r \in RunsOn(item.id) :
           /\ RunsOn(item.id) = {r}
           /\ runs[r].outcome = "failed"
           /\ runs[r].i = 1
      /\ item.status = "paused"
      /\ item.processedChunks = 1
      /\ RawText(item) = TextOf(1)

\* a run resumed from checkpoint 1 has completed
C2_ResumedFromOne ==
  \E r \in 1..Len(runs) :
    /\ runs[r].outcome = "completed"
    /\ runs[r].isResuming
    /\ runs[r].startIndex = 1
    /\ runs[r].sent = <<1>>
    /\ \E k \in Items :
         /\ mediaQueue[k].id = runs[r].item.id
         /\ mediaQueue[k].status = "completed"
         /\ RawText(mediaQueue[k]) = TextOf(2)

----------------------------------------------------------------------------
\* a step of a stage run: its start, its success or its failure
StageStep == stages' # stages /\ stages' # <<>>

(* C7: no step of a stage run, on a completed item or on any other, changes
   the stage or the content of a RAW version of any item; it only appends a
   derived version or writes to the version it appended. *)
C7_StageKeepsRaw ==
  [][StageStep =>
       \A k \in Items :
         /\ Len(mediaQueue') = Len(mediaQueue)
         /\ Len(mediaQueue'[k].versions) >= Len(mediaQueue[k].versions)
         /\ \A j \in 1..Len(mediaQueue[k].versions) :
              LET old == mediaQueue[k].versions[j]
                  new == mediaQueue'[k].versions[j]
              IN  /\ new.id = old.id
                  /\ new.stage = old.stage
                  /\ old.stage = RAW => new.content = old.content]_vars

\* a stage run on a completed transcription has ended, the RAW text is whole
C7_StageOnCompleted ==
  \E s \in 1..Len(stages), r \in 1..Len(runs), k \in Items :
    /\ stages[s].pc \in {"done", "failed"}
    /\ runs[r].outcome = "completed"
    /\ ActiveOn(mediaQueue[k].id) = {}
    /\ runs[r].item.id = mediaQueue[k].id
    /\ Len(mediaQueue[k].versions) = 2
    /\ RawText(mediaQueue[k]) = TextOf(mediaQueue[k].totalChunks)
    /\ mediaQueue[k].totalChunks = 2

----------------------------------------------------------------------------
\* every parent named in a version list stands earlier in the same list
Lineage(versions) ==
  \A j \in 1..Len(versions) :
    versions[j].parentId # Null =>
      \E i \in 1..(j - 1) : versions[i].id = versions[j].parentId

(* C8: in every reachable state every version with a parent names, as its
   parent, a version of the same item that was appended before it; this holds
   of the live items, of what is rendered and of the stored rows. *)
C8_Lineage ==
  /\ \A k \in Items : Lineage(mediaQueue[k].versions)
  /\ \A k \in 1..Len(mediaQueueRef) : Lineage(mediaQueueRef[k].versions)
  /\ \A row \in storage : Lineage(row.versions)

\* a derived version, made by a stage run that has ended, names its parent
C8_DerivedVersion ==
  \E k \in Items, s \in 1..Len(stages) :
    LET versions == mediaQueue[k].versions IN
      /\ stages[s].pc = "done"
      /\ Len(versions) = 2
      /\ versions[2].id = stages[s].newVersion.id
      /\ versions[2].parentId = versions[1].id
      /\ versions[2].parentId # Null

----------------------------------------------------------------------------
VersionIds(item) == [j \in 1..Len(item.versions) |-> item.versions[j].id]

IsPrefix(s, t) == Len(s) <= Len(t) /\ \A j \in 1..Len(s) : s[j] = t[j]

(* C9: the versions list of a live item is append-only: in every step that
   keeps the item in the queue, the ids of its versions before the step are a
   prefix of the ids after it, so none is removed and none changes place. *)
C9_AppendOnly ==
  [][\A k \in Items :
       (k <= Len(mediaQueue') /\ mediaQueue'[k].id = mediaQueue[k].id) =>
          IsPrefix(VersionIds(mediaQueue[k]), VersionIds(mediaQueue'[k]))]_vars

\* an item started, run through a stage and then restarted has kept the RAW
\* and the derived version in their places before the new RAW version
C9_Restarted ==
  \E k \in Items, s \in 1..Len(stages) :
    LET versions == mediaQueue[k].versions IN
      /\ Len(runs) = 2
      /\ runs[1].item.id = mediaQueue[k].id
      /\ runs[2].item.id = mediaQueue[k].id
      /\ ~runs[2].isResuming
      /\ stages[s].activeItem.id = mediaQueue[k].id
      /\ Len(versions) = 3
      /\ versions[1].id = runs[1].baseVersionId
      /\ versions[2].id = stages[s].newVersion.id
      /\ versions[3].id = runs[2].baseVersionId
      /\ versions[3].stage = RAW
      /\ mediaQueue[k].processedChunks = 0

----------------------------------------------------------------------------
(* C10: a start that is refused changes no item, starts no run and no save and
   writes no row; it is refused with the key modal exactly when there is no
   credential, whether or not the item has a file, and with the alert only
   when there is a credential. *)
C10_StartPrecondition ==
  [][(refused' # refused /\ refused' # "none") =>
       /\ UNCHANGED <<mediaQueue, runs, stages, saves, storage, syncStatus, apiKey,
                      nextId, adapter, slicer, manager, clock>>
       /\ refused' = "key" <=> ~apiKey
       /\ refused' = "key" => showKeyModal'
       /\ refused' = "file" => (showKeyModal' = showKeyModal /\
             \E k \in Items : mediaQueue[k].file = NoFile)]_vars

\* a start was refused for want of a credential when no item had a file
C10_NoKeyNoFile ==
  /\ refused = "key"
  /\ ~apiKey
  /\ mediaQueue # <<>>
  /\ \A k \in Items : mediaQueue[k].file = NoFile /\ mediaQueue[k].status = "paused"

----------------------------------------------------------------------------
\* the candidates in declared order, the selected model first and not again
Candidates(selectedModel) ==
  LET Other(x) == x # selectedModel
  IN  <<selectedModel>> \o SelectSeq(Fallbacks, Other)

\* n requests to each candidate in turn
Thrice(models, n) == [j \in 1..(n * Len(models)) |-> models[((j - 1) \div n) + 1]]

(* C4: every request transcribeSegment has made so far follows the order
   "three to each candidate in turn", the candidates being the selected model
   and then the fallbacks without it; when it raises, every attempt having
   failed, it has made exactly 3 x n requests, n the number of candidates. *)
C4_TranscribeRetries ==
  (adapter # NoRun /\ adapter.fn = "transcribeSegment") =>
     LET all == Thrice(Candidates(adapter.selectedModel), 3) IN
       /\ IsPrefix(adapter.log, all)
       /\ adapter.pc = "raised" => adapter.log = all
       /\ adapter.pc = "raised" =>
            Len(adapter.log) = 3 * Cardinality(Range(MODELS_TO_TRY(adapter.selectedModel)))

\* transcribeSegment has raised for a selected model that is also a fallback
C4_RaisedWithDuplicate ==
  /\ adapter # NoRun
  /\ adapter.fn = "transcribeSegment"
  /\ adapter.pc = "raised"
  /\ adapter.selectedModel = "gemini-2.5-pro-preview"
  /\ Len(adapter.log) = 15

(* C5 as stated: when processTextStage raises, every attempt having failed,
   it has made 3 x n requests, three to each of its n candidates in turn. *)
C5_StageRetriesAsStated ==
  (adapter # NoRun /\ adapter.fn = "processTextStage" /\ adapter.pc = "raised") =>
     adapter.log = Thrice(Candidates(adapter.selectedModel), 3)

----------------------------------------------------------------------------
\* run r stops in this step
Stops(r) ==
  /\ r <= Len(runs)
  /\ Active(runs[r])
  /\ Len(runs') = Len(runs)
  /\ runs'[r].pc = "done"

(* C6: a run that stops because it finds its item paused with no error leaves
   the status and the error as they are, paused and unset; a run that stops because a
   step inside it failed leaves the item paused with a non-empty error. *)
C6_PauseVersusError ==
  [][\A r \in 1..Len(runs) :
       Stops(r) =>
         /\ runs'[r].outcome = "paused" =>
              /\ LiveItem(mediaQueue, runs[r]).status = "paused"
              /\ LiveItem(mediaQueue, runs[r]).error = Undefined
              /\ LiveItem(mediaQueue', runs[r]).status = "paused"
              /\ LiveItem(mediaQueue', runs[r]).error = Undefined
         /\ runs'[r].outcome = "failed" =>
              /\ LiveItem(mediaQueue', runs[r]).status = "paused"
              /\ LiveItem(mediaQueue', runs[r]).error \notin {Undefined, ""}]_vars

\* one run has stopped on a pause and left no error, another has stopped on a
\* failure and left one
C6_BothStops ==
  \E a, b \in 1..Len(runs), k, l \in Items :
    /\ runs[a].outcome = "paused"
    /\ runs[a].item.id = mediaQueue[k].id
    /\ RunsOn(mediaQueue[k].id) = {a}
    /\ mediaQueue[k].status = "paused"
    /\ mediaQueue[k].error = Undefined
    /\ runs[b].outcome = "failed"
    /\ runs[b].item.id = mediaQueue[l].id
    /\ RunsOn(mediaQueue[l].id) = {b}
    /\ mediaQueue[l].status = "paused"
    /\ mediaQueue[l].error = "default_error"

----------------------------------------------------------------------------
\* run r reaches the end of its loop in this step
Finishes(r) ==
  /\ r <= Len(runs)
  /\ Active(runs[r])
  /\ Len(runs') = Len(runs)
  /\ runs'[r].pc = "done"
  /\ runs'[r].outcome = "completed"

\* the transcript run r has accumulated when the step it is about to take ends
Accumulated(run) ==
  IF run.pc = "call" THEN run.fullTranscript \o <<run.i, SP>> ELSE run.fullTranscript

(* C11: the step in which a run completes leaves the live item 'completed'
   at progress 100 with the RAW version under its final name, and issues
   exactly one save, whose snapshot is 'completed', has processedChunks =
   totalChunks = the chunk count of the run, points at the RAW version and
   holds in it the whole transcript the run has accumulated. *)
C11_CompletionSave ==
  [][\A r \in 1..Len(runs) :
       Finishes(r) =>
         LET live == LiveItem(mediaQueue', runs[r])
             raw == live.versions[VersionById(live, runs[r].baseVersionId)]
         IN /\ live.status = "completed"
            /\ live.progress = 100
            /\ raw.name = <<RAW, "complete">>
            /\ raw.stage = RAW
            /\ Len(saves') = Len(saves) + 1
            /\ \A k \in 1..Len(saves) : saves'[k] = saves[k]
            /\ LET snap == saves'[Len(saves')].item
                   j == VersionById(snap, runs[r].baseVersionId)
               IN /\ snap.id = runs[r].item.id
                  /\ snap.status = "completed"
                  /\ snap.processedChunks = runs'[r].currentTotalChunks
                  /\ snap.totalChunks = runs'[r].currentTotalChunks
                  /\ snap.currentVersionId = runs[r].baseVersionId
                  /\ j # 0
                  /\ snap.versions[j].stage = RAW
                  /\ snap.versions[j].content = Accumulated(runs[r])
                  /\ runs[r].pc = "call" => raw.content = snap.versions[j].content]_vars

\* a run of two chunks has completed and its save is in flight
C11_SaveInFlight ==
  \E r \in 1..Len(runs), k \in 1..Len(saves), q \in Items :
    /\ runs[r].outcome = "completed"
    /\ runs[r].sent = <<0, 1>>
    /\ mediaQueue[q].id = runs[r].item.id
    /\ mediaQueue[q].status = "completed"
    /\ saves[k].item.id = runs[r].item.id
    /\ saves[k].item.processedChunks = 2
    /\ RawText(saves[k].item) = TextOf(2)

----------------------------------------------------------------------------
(* C12: the step in which a run stops on a failure or on a pause issues no
   save and writes no row; a save is issued by a run only in the step in
   which it completes. *)
C12_NoSaveUnlessCompleted ==
  [][\A r \in 1..Len(runs) :
       Stops(r) =>
         /\ runs'[r].outcome \in {"failed", "paused"} =>
              (saves' = saves /\ storage' = storage)
         /\ saves' # saves => runs'[r].outcome = "completed"]_vars

\* a run has failed and another has stopped on a pause, and nothing was saved
C12_StoppedUnsaved ==
  \E a, b \in 1..Len(runs) :
    /\ runs[a].outcome = "failed"
    /\ runs[b].outcome = "paused"
    /\ runs[b].sent = <<0>>
    /\ saves = <<>>
    /\ storage = {}

----------------------------------------------------------------------------
(* C13: the step in which a run fails changes neither processedChunks nor
   totalChunks nor any version of its item: they stay as the last checkpoint
   left them. *)
C13_FailureKeepsCheckpoint ==
  [][\A r \in 1..Len(runs) :
       (Stops(r) /\ runs'[r].outcome = "failed") =>
          LET old == LiveItem(mediaQueue, runs[r])
              new == LiveItem(mediaQueue', runs[r])
          IN /\ new.processedChunks = old.processedChunks
             /\ new.totalChunks = old.totalChunks
             /\ new.versions = old.versions
             /\ new.currentVersionId = old.currentVersionId]_vars

\* a resumed run has failed on chunk 1 after its checkpoint of chunk 0
C13_ResumedThenFailed ==
  \E r \in 1..Len(runs), k \in Items :
    /\ runs[r].outcome = "failed"
    /\ runs[r].isResuming
    /\ runs[r].sent = <<0, 1>>
    /\ mediaQueue[k].id = runs[r].item.id
    /\ mediaQueue[k].status = "paused"
    /\ mediaQueue[k].processedChunks = 1
    /\ RawText(mediaQueue[k]) = TextOf(1)

----------------------------------------------------------------------------
(* C14: in every reachable state every live item has
   0 <= processedChunks <= totalChunks. *)
C14_ProcessedWithinTotal ==
  \A k \in Items :
    /\ 0 <= mediaQueue[k].processedChunks
    /\ mediaQueue[k].processedChunks <= mediaQueue[k].totalChunks

(* C15: in every reachable state the currentVersionId of every live item is
   null or the id of one of the item's versions, and it is null only when
   the item has no versions. *)
C15_CurrentVersionPresent ==
  \A k \in Items :
    LET item == mediaQueue[k] IN
    /\ item.currentVersionId = Null \/ item.currentVersionId \in Range(VersionIds(item))
    /\ item.currentVersionId = Null => item.versions = <<>>

\* two live items: one without versions and without a current version, and
\* one with a derived version whose earlier version was selected for viewing
C15_ViewedEarlierVersion ==
  \E k, m \in Items :
    /\ mediaQueue[k].versions = <<>>
    /\ mediaQueue[k].currentVersionId = Null
    /\ Len(mediaQueue[m].versions) >= 2
    /\ mediaQueue[m].currentVersionId = mediaQueue[m].versions[1].id

\* the runs on the item that are inside the chunk loop of lines 255-299
InLoop(id) == {r \in RunsOn(id) : runs[r].pc = "call"}

(* C16: in every step taken while a run is in the chunk loop on an item,
   the ending step of the run included, the item's processedChunks does not
   decrease. *)
C16_ProcessedNeverDecreases ==
  [][\A k \in Items :
       (InLoop(mediaQueue[k].id) # {} /\ k <= Len(mediaQueue'))
         => mediaQueue'[k].processedChunks >= mediaQueue[k].processedChunks]_vars

\* the run's RAW version is in the live item
HasRaw(q, run) ==
  /\ IdIndex(q, run.item.id) # 0
  /\ VersionById(LiveItem(q, run), run.baseVersionId) # 0

(* C17: in every step taken while a run is in the chunk loop, the ending step
   of the run included, the content of the run's RAW version before the step
   is a prefix of its content after the step. *)
C17_RawNeverShrinks ==
  [][\A r \in 1..Len(runs) :
       (runs[r].pc = "call" /\ HasRaw(mediaQueue, runs[r]) /\ HasRaw(mediaQueue', runs[r]))
         => IsPrefix(LiveRawContent(mediaQueue, runs[r]),
                     LiveRawContent(mediaQueue', runs[r]))]_vars

\* run r issues the remote call for the chunk after the one it had in flight
SendsNext(r) ==
  /\ r <= Len(runs')
  /\ runs[r].pc = "call"
  /\ runs'[r].pc = "call"
  /\ runs'[r].sent # runs[r].sent

(* C18: a run sends its chunks in consecutive order from its start index,
   one call at a time, and in the step in which it issues the call for chunk
   i+1 the live item has processedChunks = i+1 and the run's RAW version
   holds the text accumulated up to chunk i. *)
C18_SentInOrder ==
  [][\A r \in 1..Len(runs) :
       /\ (r <= Len(runs') /\ runs'[r].sent # runs[r].sent) =>
            /\ runs'[r].pc = "call"
            /\ runs'[r].sent = Append(runs[r].sent, runs'[r].i)
            /\ runs'[r].i = IF runs[r].sent = <<>> THEN runs[r].startIndex
                                                  ELSE runs[r].i + 1
       /\ SendsNext(r) =>
            /\ LiveItem(mediaQueue', runs[r]).processedChunks = runs[r].i + 1
            /\ HasRaw(mediaQueue', runs[r])
            /\ LiveRawContent(mediaQueue', runs[r])
                 = AppendChunk(runs[r].fullTranscript, ChunkText(runs[r].i))]_vars

\* the call for chunk 1 is in flight after chunk 0 was committed
C18_SecondCallInFlight ==
  \E r \in 1..Len(runs) :
    /\ runs[r].pc = "call"
    /\ runs[r].sent = <<0, 1>>
    /\ LiveItem(mediaQueue, runs[r]).processedChunks = 1
    /\ LiveRawContent(mediaQueue, runs[r]) = TextOf(1)

----------------------------------------------------------------------------
RECURSIVE SumLengths(_)
SumLengths(chunks) ==
  IF chunks = <<>> THEN 0
  ELSE chunks[1].length + SumLengths(Tail(chunks))

(* C19: a pass over a recording of duration d > 0 with window w > 0 cuts
   exactly ceil(d/w) windows (the least n with n*w >= d); window i starts at
   i*w, every window but the last has length w, the last has length
   min(w, d - start), and the lengths sum to d; d = 500 and w = 240 give
   the lengths 240, 240, 20. *)
C19_WindowsCoverDuration ==
  slicer.pc = "done" =>
    LET d == slicer.duration
        w == slicer.window
        chunks == slicer.chunks
        n == Len(chunks)
    IN /\ (n - 1) * w < d
       /\ d <= n * w
       /\ \A j \in 1..n : chunks[j].startTime = (j - 1) * w
       /\ \A j \in 1..(n - 1) : chunks[j].length = w
       /\ chunks[n].length = (IF w <= d - chunks[n].startTime
                              THEN w ELSE d - chunks[n].startTime)
       /\ SumLengths(chunks) = d
       /\ (d = 500 /\ w = 240) =>
            [j \in 1..n |-> chunks[j].length] = <<240, 240, 20>>

\* the pass over 500 units with window 240 has ended with three windows
C19_ThreeWindows ==
  /\ slicer.pc = "done"
  /\ slicer.duration = 500
  /\ slicer.window = 240
  /\ Len(slicer.chunks) = 3
  /\ slicer.chunks[3] = [startTime |-> 480, length |-> 20]

----------------------------------------------------------------------------
\* the last delete call passed the existence check and its delete request
\* returned without an error and with a count of 0 or with no count
ZeroRows(call) ==
  /\ call.check = "ok"
  /\ call.outcome # "none"
  /\ call.error = NoError
  /\ call.count \in {0, NoCount}

(* C20: a delete whose existence check succeeded and whose delete request
   reports zero or no affected rows throws the policy-blocked message, never
   returns true and leaves the project listed; a delete whose existence check
   fails throws the not-found message, which is a different one. *)
C20_PolicyBlocked ==
  manager # Closed =>
    /\ ZeroRows(manager.last) =>
         /\ manager.last.outcome = PolicyBlockedMessage
         /\ manager.last.outcome # "true"
         /\ manager.last.id \in manager.projects
         /\ manager.error = shownError(PolicyBlockedMessage)
    /\ manager.last.check = "error" =>
         /\ manager.last.outcome = NotFoundMessage
         /\ manager.last.outcome # PolicyBlockedMessage

\* a delete passed the check, its request reported no count and kept the
\* row, and the policy-blocked message is on display
C20_BlockedWithoutCount ==
  /\ manager # Closed
  /\ ZeroRows(manager.last)
  /\ manager.last.count = NoCount
  /\ manager.last.id \in RowIds(storage)
  /\ manager.error = shownError(PolicyBlockedMessage)

----------------------------------------------------------------------------
\* a start made by the 'online' listener: a run begins and no render comes
\* with it (the click handlers are rendered with their update)
OnlineStart ==
  /\ Len(runs') = Len(runs) + 1
  /\ mediaQueueRef' = mediaQueueRef
  /\ mediaQueueRef' # mediaQueue'

(* C21: a start made by a connectivity-restored event is a resume, made with
   a credential present, of an item that is paused in the live collection;
   with no live item paused no start is made. *)
C21_OnlineResumesPaused ==
  [][OnlineStart =>
       LET run == runs'[Len(runs')] IN
       /\ apiKey
       /\ run.isResuming
       /\ \E k \in Items : /\ mediaQueue[k].id = run.item.id
                            /\ mediaQueue[k].status = "paused"]_vars

----------------------------------------------------------------------------
\* a tick that ends with the auto-save callback
CheckStep == clock'.now = clock.now + 1 /\ clock'.checked

\* the callback calls handleSaveToCloud with the rendered active item
AutoSaved ==
  /\ activeItem(mediaQueueRef) # 0
  /\ saves' = Append(saves, [item |-> serializeItem(mediaQueueRef[activeItem(mediaQueueRef)]),
                             isAuto |-> TRUE])

\* seconds since lastSavedRef was written, at the time of the callback
AgeAtCheck == (clock'.now - clock.lastSaved) * CHECK_SECONDS

RenderedActiveCompleted ==
  /\ activeItem(mediaQueueRef) # 0
  /\ mediaQueueRef[activeItem(mediaQueueRef)].status = "completed"

(* C22 as stated: at each periodic check the active item is saved if and
   only if its status is completed and at least 30 seconds have passed since
   the last successful save. *)
C22_AutoSaveAsStated ==
  [][CheckStep =>
       (AutoSaved <=> (RenderedActiveCompleted /\ AgeAtCheck >= SAVE_AFTER_SECONDS))]_vars

(* C22: at each periodic check the rendered active item is saved if and only
   if its status is completed, no save is in flight and more than 30 seconds
   have passed since lastSavedRef was written (by the last successful save
   or, before any, by the mount); otherwise the check issues no save, so it
   never saves an item that is idle, processing, paused or in error. *)
C22_AutoSave ==
  [][CheckStep =>
       /\ AutoSaved <=> (/\ RenderedActiveCompleted
                         /\ syncStatus # "saving"
                         /\ AgeAtCheck > SAVE_AFTER_SECONDS)
       /\ AutoSaved \/ saves' = saves
       /\ saves' # saves => RenderedActiveCompleted
       /\ UNCHANGED <<mediaQueue, storage>>]_vars

\* the completion save succeeded at the mount tick and, four ticks later, the
\* callback has issued a save of the completed item
C22_SavedByTimer ==
  /\ clock.checked
  /\ clock.now - clock.lastSaved = 4
  /\ storage # {}
  /\ Len(saves) = 1
  /\ saves[1].item.status = "completed"
  /\ syncStatus = "saving"
  /\ Len(runs) = 1
  /\ stages = <<>>

----------------------------------------------------------------------------
\* the transitions of the stated machine
StatusTable ==
  {<<"idle", "processing">>, <<"processing", "completed">>, <<"processing", "paused">>,
   <<"processing", "error">>, <<"paused", "processing">>, <<"error", "processing">>}

(* C23: every change of the status of a live item is a transition of the
   stated machine: idle -> processing, processing -> completed | paused |
   error, paused -> processing, error -> processing; so a completed item
   never becomes paused. *)
C23_StatusTable ==
  [][\A k \in Items :
       (k <= Len(mediaQueue') /\ mediaQueue'[k].id = mediaQueue[k].id
          /\ mediaQueue'[k].status # mediaQueue[k].status)
         => <<mediaQueue[k].status, mediaQueue'[k].status>> \in StatusTable]_vars

----------------------------------------------------------------------------
\* stage run s has returned its text in this step
StageSucceeds(s) == stages[s].pc = "call" /\ s <= Len(stages') /\ stages'[s].pc = "done"

(* C24: when a stage run succeeds, the version it appended carries the
   returned text and the completed stage name, the item is 'completed' with
   progress 100, and one save is issued whose snapshot holds every version
   of the live item at that moment, the new version last with its final
   content. *)
C24_StageSuccess ==
  [][\A s \in 1..Len(stages) :
       StageSucceeds(s) =>
         LET st == stages[s]
             k == IdIndex(mediaQueue', st.activeItem.id)
             live == mediaQueue'[k]
             result == StageText(st.parentVersion.content)
             final == Merge(st.newVersion, [content |-> result, name |-> stageName(st.stage)])
             snapshot == saves'[Len(saves')].item
         IN  /\ k # 0
             /\ VersionById(live, st.newVersion.id) # 0
             /\ live.versions[VersionById(live, st.newVersion.id)] = final
             /\ live.status = "completed"
             /\ live.progress = 100
             /\ Len(saves') = Len(saves) + 1
             /\ [j \in 1..Len(snapshot.versions) |-> snapshot.versions[j].id]
                  = [j \in 1..Len(live.versions) |-> live.versions[j].id]
             /\ snapshot.versions[Len(snapshot.versions)] = final]_vars

----------------------------------------------------------------------------
\* stage run s has failed in this step
StageRaises(s) == stages[s].pc = "call" /\ s <= Len(stages') /\ stages'[s].pc = "failed"

(* C25: when a stage run fails, the item's status becomes 'error', the
   version the run appended stays in the list with the failure marker as
   content and the failed stage name, and every other version of the item
   keeps its id, content, name and parentId, at its place in the list. *)
C25_StageFailure ==
  [][\A s \in 1..Len(stages) :
       StageRaises(s) =>
         LET st == stages[s]
             k == IdIndex(mediaQueue, st.activeItem.id)
             before == mediaQueue[k].versions
             after == mediaQueue'[k].versions
         IN  /\ k # 0
             /\ mediaQueue'[k].id = mediaQueue[k].id
             /\ mediaQueue'[k].status = "error"
             /\ Len(after) = Len(before)
             /\ \E j \in 1..Len(after) :
                  /\ after[j].id = st.newVersion.id
                  /\ after[j].content = FailureMarker
                  /\ after[j].name = stageNameFailed(st.stage)
             /\ \A j \in 1..Len(before) :
                  before[j].id # st.newVersion.id =>
                    /\ after[j].id = before[j].id
                    /\ after[j].content = before[j].content
                    /\ after[j].name = before[j].name
                    /\ after[j].parentId = before[j].parentId]_vars

\* a stage run has failed on an item whose RAW text holds a committed chunk
C25_FailedStageKept ==
  \E s \in 1..Len(stages), k \in Items :
    /\ stages[s].pc = "failed"
    /\ mediaQueue[k].id = stages[s].activeItem.id
    /\ mediaQueue[k].status = "error"
    /\ Len(mediaQueue[k].versions) = 2
    /\ mediaQueue[k].versions[2].content = FailureMarker
    /\ mediaQueue[k].versions[1].content = TextOf(1)

----------------------------------------------------------------------------
\* what runStage requires of its call: a credential, a rendered active item
\* and a parent id that is the id of one of its versions
StagePrecondition(parentVersionId) ==
  /\ apiKey
  /\ activeItem(mediaQueueRef) # 0
  /\ \E j \in 1..Len(mediaQueueRef[activeItem(mediaQueueRef)].versions) :
       mediaQueueRef[activeItem(mediaQueueRef)].versions[j].id = parentVersionId

StageBegins == Len(stages') = Len(stages) + 1

(* C26: a call of runStage without a credential, without an active item or
   with a parent id that is no version of the active item does nothing: no
   item changes (no version appended, no status or progress written), no
   request is sent and no save is issued; so a stage run begins only on a
   version of the active item, with a credential. *)
C26_StagePrecondition ==
  [][/\ \A stage \in DerivedStages, parentVersionId \in 1..(nextId - 1) :
          (StageCall(stage, parentVersionId) /\ ~StagePrecondition(parentVersionId))
             => UNCHANGED <<mediaQueue, stages, saves, syncStatus, runs, storage, nextId>>
     /\ StageBegins =>
          LET st == stages'[Len(stages')] IN
            /\ StagePrecondition(st.parentVersion.id)
            /\ st.activeItem.id = activeItemId
            /\ UNCHANGED <<saves, storage>>]_vars

\* with a credential and the active item holding a version, a version id of
\* another item is at hand, and what is rendered is what is live
C26_ForeignParentAtHand ==
  /\ apiKey
  /\ mediaQueueRef = mediaQueue
  /\ activeItem(mediaQueue) # 0
  /\ mediaQueue[activeItem(mediaQueue)].versions # <<>>
  /\ stages = <<>>
  /\ \E k \in Items, j \in 1..(nextId - 1) :
       /\ k # activeItem(mediaQueue)
       /\ VersionById(mediaQueue[k], j) # 0
       /\ ~StagePrecondition(j)

----------------------------------------------------------------------------
\* the save at place k of those in flight has ended in this step
SaveEnds(k) == saves' = Without(saves, k)

(* C27: a save that ends changes no live item, no run and no stage run,
   whatever its outcome; either the row is written, the sync indicator
   becomes 'saved' and the time of the last save becomes the present, or
   (the upsert failed) no row is written, the sync indicator becomes 'error'
   and the time of the last save stays what it was. *)
C27_FailedSave ==
  [][\A k \in 1..Len(saves) :
       SaveEnds(k) =>
         /\ UNCHANGED <<mediaQueue, mediaQueueRef, activeItemId, runs, stages>>
         /\ \/ /\ storage' = upsert(storage, saves[k].item)
               /\ syncStatus' = "saved"
               /\ clock'.lastSaved = clock.now
            \/ /\ storage' = storage
               /\ syncStatus' = "error"
               /\ clock'.lastSaved = clock.lastSaved]_vars

\* the save of a completed transcription has failed some time after the mount:
\* the item is still completed with its text, nothing is stored
C27_CompletionSaveFailed ==
  /\ syncStatus = "error"
  /\ saves = <<>>
  /\ storage = {}
  /\ clock.now > clock.lastSaved
  /\ \E k \in Items, r \in 1..Len(runs) :
       /\ runs[r].outcome = "completed"
       /\ runs[r].item.id = mediaQueue[k].id
       /\ mediaQueue[k].status = "completed"
       /\ mediaQueue[k].processedChunks = mediaQueue[k].totalChunks
       /\ RawText(mediaQueue[k]) = TextOf(mediaQueue[k].totalChunks)

----------------------------------------------------------------------------
\* the requests of call a so far are MaxAttempts to each candidate in turn, the
\* last of them being attempt a.attempt on candidate a.m
InFallbackOrder(a) ==
  /\ Len(a.log) = MaxAttempts * (a.m - 1) + a.attempt
  /\ a.attempt \in 1..MaxAttempts
  /\ \A n \in 1..Len(a.log) : a.log[n] = a.models[((n - 1) \div MaxAttempts) + 1]

(* C28: within one call of transcribeSegment the requests go to the
   candidates in order, three to each: a request to candidate j+1 is made
   only when the three requests to candidate j have all failed; every request
   before the latest has failed; and the first request that succeeds ends
   the call, so that a success on attempt k of candidate j has cost exactly
   3*(j-1)+k requests. *)
C28_FallbackOrder ==
  [][/\ (adapter' # NoRun /\ adapter'.fn = "transcribeSegment") =>
          /\ InFallbackOrder(adapter')
          /\ adapter'.pc \in {"request", "returned"} => adapter'.lastError = Len(adapter'.log) - 1
          /\ adapter'.pc \in {"backoff", "raised"} => adapter'.lastError = Len(adapter'.log)
          /\ adapter'.pc = "returned" => Len(adapter'.log) = 3 * (adapter'.m - 1) + adapter'.attempt
     /\ (adapter # NoRun /\ adapter.fn = "transcribeSegment" /\ adapter.pc = "returned") =>
          adapter' = NoRun]_vars

\* transcribeSegment has returned on the second attempt of the second candidate
C28_ReturnedOnFifth ==
  /\ adapter # NoRun
  /\ adapter.fn = "transcribeSegment"
  /\ adapter.pc = "returned"
  /\ adapter.m = 2
  /\ adapter.attempt = 2
  /\ Len(adapter.log) = 5
  /\ adapter.lastError = 4

----------------------------------------------------------------------------
(* C29: when a call of the adapter raises, every candidate having spent its
   attempts, the error it raises is the error of the last request made, and
   that request is the third to the last candidate. *)
C29_LastErrorRaised ==
  (adapter # NoRun /\ adapter.pc = "raised") =>
     /\ adapter.lastError = Len(adapter.log)
     /\ adapter.log[adapter.lastError] = adapter.models[Len(adapter.models)]
     /\ Len(adapter.log) = 3 * Len(adapter.models)

----------------------------------------------------------------------------
\* the call of run r for its chunk returns in this step
Returns(r) ==
  /\ r <= Len(runs')
  /\ runs[r].pc = "call"
  /\ runs'[r] # runs[r]
  /\ ~(runs'[r].pc = "done" /\ runs'[r].outcome = "failed")

\* the item of run r is paused with no error: a user pause
UserPaused(q, run) ==
  /\ IdIndex(q, run.item.id) # 0
  /\ LiveItem(q, run).status = "paused"
  /\ Falsy(LiveItem(q, run).error)

(* C30: when the call for chunk i returns and the item has been paused by
   the user (status 'paused', no error) while it was in flight, chunk i is
   still committed (processedChunks = i+1, the RAW text holding chunk i), the
   run stops there without sending chunk i+1, the item is not marked
   completed and no save is issued. *)
C30_CooperativePause ==
  [][\A r \in 1..Len(runs) :
       (Returns(r) /\ UserPaused(mediaQueue, runs[r])) =>
         LET run == runs[r]
             live == LiveItem(mediaQueue', run)
         IN  /\ live.processedChunks = run.i + 1
             /\ RawText(live) = Accumulated(run)
             /\ runs'[r].pc = "done"
             /\ runs'[r].outcome = "paused"
             /\ runs'[r].sent = run.sent
             /\ live.status = "paused"
             /\ saves' = saves]_vars

----------------------------------------------------------------------------
\* a call of startTranscription is accepted in this step
StartsRun == Len(runs') = Len(runs) + 1

\* the run that the step starts, and its item as rendered before the step
NewRun == runs'[Len(runs')]
RenderedItem(id) == mediaQueueRef[IdIndex(mediaQueueRef, id)]

(* C31: a start with resume = false on an item rendered with processedChunks
   > 0 either restarts: processedChunks and totalChunks of the live item
   become 0, the run begins at chunk 0 with a new RAW version of empty
   content, appended to the live item and made its current version, every
   earlier version being left as it was; or continues: the run begins at
   chunk processedChunks on an existing RAW version and no version is added. *)
C31_RestartOrContinue ==
  [][(StartsRun /\ ~NewRun.isResuming
        /\ RenderedItem(NewRun.item.id).processedChunks > 0) =>
       LET old == LiveItem(mediaQueue, NewRun)
           new == LiveItem(mediaQueue', NewRun)
           n == Len(old.versions)
       IN  \/ /\ NewRun.startIndex = 0
              /\ new.processedChunks = 0
              /\ new.totalChunks = 0
              /\ NewRun.fullTranscript = <<>>
              /\ Len(new.versions) = n + 1
              /\ new.versions[n + 1].id = NewRun.baseVersionId
              /\ new.versions[n + 1].stage = RAW
              /\ new.versions[n + 1].content = <<>>
              /\ new.currentVersionId = NewRun.baseVersionId
              /\ \A j \in 1..n : new.versions[j] = old.versions[j]
              /\ \A j \in 1..n : old.versions[j].id # NewRun.baseVersionId
           \/ /\ NewRun.startIndex = RenderedItem(NewRun.item.id).processedChunks
              /\ new.versions = old.versions
              /\ \E j \in 1..n : /\ old.versions[j].id = NewRun.baseVersionId
                                  /\ old.versions[j].stage = RAW]_vars

\* a run restarted from an item that had chunk 0 committed: two RAW versions,
\* the first with its text, the second empty and current
C31_RestartedAfterOne ==
  \E k \in Items :
    LET item == mediaQueue[k] IN
      /\ Len(runs) = 2
      /\ runs[1].outcome = "failed"
      /\ runs[2].item.id = item.id
      /\ ~runs[2].isResuming
      /\ runs[2].pc = "decode"
      /\ runs[2].startIndex = 0
      /\ Len(item.versions) = 2
      /\ item.versions[1].content = TextOf(1)
      /\ item.versions[2].content = <<>>
      /\ item.currentVersionId = item.versions[2].id
      /\ item.processedChunks = 0

----------------------------------------------------------------------------
\* the RAW versions of an item
RawVersions(item) == LET IsRaw(v) == v.stage = RAW IN SelectSeq(item.versions, IsRaw)

(* C32: a start with resume = true on an item that has a RAW version adds no
   version to the live item, so the item has as many RAW versions after it
   as before; the run writes to an existing RAW version and its transcript
   begins as the content that version has when the run starts. *)
C32_ResumeReusesRaw ==
  [][(StartsRun /\ NewRun.isResuming
        /\ RawVersions(RenderedItem(NewRun.item.id)) # <<>>) =>
       LET old == LiveItem(mediaQueue, NewRun)
           new == LiveItem(mediaQueue', NewRun)
       IN  /\ new.versions = old.versions
           /\ Len(RawVersions(new)) = Len(RawVersions(old))
           /\ \E j \in 1..Len(old.versions) :
                /\ old.versions[j].id = NewRun.baseVersionId
                /\ old.versions[j].stage = RAW
                /\ NewRun.fullTranscript = old.versions[j].content]_vars

----------------------------------------------------------------------------
(* C33: while a run is active on an item, every step that changes the item's
   processedChunks or the content of the run's RAW version is a step of that
   run: no stage run, edit, timer or listener, and no other run, writes
   either of them. *)
C33_SoleWriter ==
  [][\A r \in 1..Len(runs) :
       (Active(runs[r]) /\ HasRaw(mediaQueue, runs[r]) /\ HasRaw(mediaQueue', runs[r])) =>
          ((\/ LiveItem(mediaQueue', runs[r]).processedChunks
                 # LiveItem(mediaQueue, runs[r]).processedChunks
            \/ LiveRawContent(mediaQueue', runs[r]) # LiveRawContent(mediaQueue, runs[r]))
             => runs'[r] # runs[r])]_vars

----------------------------------------------------------------------------

\* the step changes the progress of item k and nothing else in the program
OnlyProgress(k) ==
  /\ Len(mediaQueue') = Len(mediaQueue)
  /\ mediaQueue'[k].progress # mediaQueue[k].progress
  /\ mediaQueue' = [mediaQueue EXCEPT ![k].progress = mediaQueue'[k].progress]
  /\ UNCHANGED <<runs, stages>>

(* C34: progress is within 0..100 in every state; when a run has the call
   for chunk i in flight, the step that sent it (which is also the step that
   committed chunk i-1) leaves progress = round(i / totalChunks * 100); while
   a stage call is in flight progress is at most 95, and a step that changes
   progress alone happens only under status 'processing' and adds 5. *)
C34_Progress ==
  [][\A k \in 1..Len(mediaQueue') :
       LET item == mediaQueue'[k] IN
       /\ item.progress \in 0..100
       /\ \A r \in 1..Len(runs') :
            (runs'[r].item.id = item.id /\ runs'[r].pc = "call" /\ runs'[r] # runs[r])
              => item.progress = RoundPercent(runs'[r].i, item.totalChunks)
       /\ (\E s \in 1..Len(stages') :
              stages'[s].pc = "call" /\ stages'[s].activeItem.id = item.id)
            => item.progress <= CAP_PERCENT
       /\ (k <= Len(mediaQueue) /\ OnlyProgress(k)) =>
            /\ mediaQueue[k].status = "processing"
            /\ item.progress = mediaQueue[k].progress + STEP_PERCENT]_vars

----------------------------------------------------------------------------
\* the RAW version of the item that was created last
LastRaw(item) == RawVersions(item)[Len(RawVersions(item))]

(* C35: a start with resume = true on an item that has more than one RAW
   version writes to the RAW version created last, the one the interrupted
   run was writing, and its transcript begins as that version's content;
   the older RAW versions are left as they were. *)
C35_ResumeOnLatestRaw ==
  [][(StartsRun /\ NewRun.isResuming
        /\ Len(RawVersions(RenderedItem(NewRun.item.id))) > 1) =>
       LET old == LiveItem(mediaQueue, NewRun)
           new == LiveItem(mediaQueue', NewRun)
       IN  /\ NewRun.baseVersionId = LastRaw(old).id
           /\ NewRun.fullTranscript = LastRaw(old).content
           /\ new.versions = old.versions]_vars

----------------------------------------------------------------------------
(* C36: in every reachable state a live item that is 'completed', has its
   source file and has a RAW version (a transcription of it was started) has
   processedChunks = totalChunks. *)
C36_CompletedIsWhole ==
  \A k \in Items :
    LET item == mediaQueue[k] IN
      (item.status = "completed" /\ item.file # NoFile /\ existingRaw(item) # 0)
        => item.processedChunks = item.totalChunks

----------------------------------------------------------------------------
\* nothing is in flight: no run, no stage call, no save, and all is rendered
Settled ==
  /\ saves = <<>>
  /\ \A r \in 1..Len(runs) : runs[r].pc = "done"
  /\ \A s \in 1..Len(stages) : stages[s].pc # "call"
  /\ Rendered

(* C37: when nothing is in flight any more, the row stored for an item has
   the versions of the live item (ids, order, content, names) and its
   currentVersionId. *)
C37_StoredIsLive ==
  Settled =>
    \A k \in Items : \A row \in storage :
      row.id = mediaQueue[k].id =>
        /\ row.versions = mediaQueue[k].versions
        /\ row.currentVersionId = mediaQueue[k].currentVersionId


----------------------------------------------------------------------------
\* run r fails in this step while a chunk's call is awaited
FailsAtChunk(r) ==
  /\ Stops(r)
  /\ runs[r].pc = "call"
  /\ runs'[r].outcome = "failed"

(* C38: after a run fails at a chunk, the progress of its item is
   round(processedChunks / totalChunks * 100), the value of the last
   checkpoint, and not the progress the item had when the run started. *)
C38_FailureKeepsProgress ==
  [][\A r \in 1..Len(runs) :
       FailsAtChunk(r) =>
          LET new == LiveItem(mediaQueue', runs[r])
          IN new.progress = RoundPercent(new.processedChunks, new.totalChunks)]_vars


----------------------------------------------------------------------------
\* a rendered item that is paused and has its source file
PausedWithFile(item) == item.status = "paused" /\ item.file # NoFile

(* C39: when the reconnection listener runs with a credential and some paused
   item has its source file, the listener resumes a paused item with a source
   file, whatever paused items without a file come before it in the
   collection. *)
C39_AutoResume ==
  [][(/\ handleOnline
      /\ Rendered
      /\ \E k \in Items : PausedWithFile(mediaQueue[k]))
       => /\ StartsRun
          /\ NewRun.isResuming
          /\ PausedWithFile(RenderedItem(NewRun.item.id))]_vars


----------------------------------------------------------------------------
\* every item of q that has a chunk done has a RAW version
RawWhenProcessed(q) ==
  \A k \in 1..Len(q) : q[k].processedChunks > 0 => existingRaw(q[k]) # 0

\* the run writes to a version its item had when the run started
BaseVersionKnown(run) ==
  \E j \in 1..Len(run.initialVersions) : run.initialVersions[j].id = run.baseVersionId

(* C40: in every reachable state a live or rendered item with
   processedChunks > 0 has a RAW version, and no run that continued from a
   chunk index above 0 took the branch of lines 225-227 with no RAW version
   found: the version such a run writes to is one of its item's versions. *)
C40_RawWhenProcessed ==
  /\ RawWhenProcessed(mediaQueue)
  /\ RawWhenProcessed(mediaQueueRef)
  /\ \A r \in 1..Len(runs) :
       (Active(runs[r]) /\ runs[r].startIndex > 0) => BaseVersionKnown(runs[r])

\* a run was started without the resume flag on an item with a chunk done, and
\* continued on the RAW version it found; it has since committed a chunk
C40_ContinuedOnFoundRaw ==
  \E r \in 1..Len(runs), k \in Items :
    /\ ~runs[r].isResuming
    /\ runs[r].startIndex > 0
    /\ mediaQueue[k].id = runs[r].item.id
    /\ mediaQueue[k].processedChunks > runs[r].startIndex
    /\ mediaQueue[k].versions[existingRaw(mediaQueue[k])].id = runs[r].baseVersionId

====
